---- MODULE Spec2Model ----
(***************************************************************************)
(* Model of the fts_rust_core full-text search engine: the FtsIndex        *)
(* wrapper (index.rs) over the six native profiles (ultra, ensemble,       *)
(* turbo, bmw_simd, roaring_bm25, seismic).                                *)
(*                                                                         *)
(* Conventions.                                                            *)
(*  - Internal doc ids are 0-based as in the source; TLA+ sequences are    *)
(*    1-based, so doc_lengths[d + 1] is the source's doc_lengths[d].       *)
(*  - A text is a sequence of runs [w |-> word, n |-> repetitions]: the    *)
(*    maximal ASCII-alphanumeric runs of the byte string, in order.        *)
(*  - f32 scores are fixed-point integers (IdfFx is ln scaled by 10^4,     *)
(*    TfFx the tf component scaled by 10^3); equal operands give equal     *)
(*    scores, as in the source.                                            *)
(*  - Block sizes, the shard count and turbo's segment size are bounds of   *)
(*    the model: the source's constants scaled down.                       *)
(***************************************************************************)
EXTENDS Integers, Sequences, FiniteSets, TLC

VARIABLES
    profile,    \* FtsIndex.profile_type: which engine the handle wraps
    eng,        \* the profile object (fields depend on the profile)
    disk,       \* the index artifact of the data directory
    res,        \* the SearchResult of the latest search call
    lastOp,     \* the latest public call on the handle
    hist,       \* observations taken at the latest index_batch call
    nsub,       \* number of documents the caller has submitted so far
    fxOrder,    \* iteration order of FxHashMap<u32, f32> (fixed per build)
    conc        \* lock and thread positions of the concurrent specification

vars == <<profile, eng, disk, res, lastOp, hist, nsub, fxOrder, conc>>

-----------------------------------------------------------------------------
(* Bounds of the model *)

MaxDocs == 2
MaxBatch == 2

\* The source's sizes, scaled down so that blocks fill, shards differ and
\* turbo's auto-flush triggers within MaxDocs documents (source values:
\* NUM_SHARDS 64; BLOCK_SIZE 512 ultra, 128 ensemble and bmw_simd, 256 turbo;
\* SEISMIC_BLOCK_SIZE 256; SEGMENT_SIZE 500000)
NUM_SHARDS == 2
ULTRA_BLOCK_SIZE == 1
ENSEMBLE_BLOCK_SIZE == 2
TURBO_BLOCK_SIZE == 2
BMW_BLOCK_SIZE == 1
SEISMIC_BLOCK_SIZE == 2
SEGMENT_SIZE == 2

-----------------------------------------------------------------------------
(* Program constants *)

EMBED_DIM == 32
U16_MAX == 65535
MIN_LENGTH == 2
MAX_LENGTH == 64
ULTRA_MAX_LEN == 32

Profiles == {"bmw_simd", "roaring_bm25", "ensemble", "seismic", "turbo", "ultra"}

-----------------------------------------------------------------------------
(* Generic helpers *)

Min2(a, b) == IF a < b THEN a ELSE b
Max2(a, b) == IF a > b THEN a ELSE b

RECURSIVE SumSeq(_)
SumSeq(s) == IF s = <<>> THEN 0 ELSE Head(s) + SumSeq(Tail(s))

RECURSIVE Perms(_)
Perms(S) ==
    IF S = {} THEN {<<>>}
    ELSE UNION {{<<x>> \o p : p \in Perms(S \ {x})} : x \in S}

RECURSIVE SetToAscSeq(_)
SetToAscSeq(S) ==
    IF S = {} THEN <<>>
    ELSE LET m == CHOOSE x \in S : \A y \in S : x <= y
         IN <<m>> \o SetToAscSeq(S \ {m})

ReverseSeq(s) == [i \in 1..Len(s) |-> s[Len(s) + 1 - i]]

SeqRange(s) == {s[i] : i \in 1..Len(s)}

\* slice::chunks(size): consecutive chunks of at most size elements.
RECURSIVE Chunks(_, _)
Chunks(s, size) ==
    IF s = <<>> THEN <<>>
    ELSE IF Len(s) <= size THEN <<s>>
    ELSE <<SubSeq(s, 1, size)>> \o Chunks(SubSeq(s, size + 1, Len(s)), size)

\* Stable insertion of x into a sequence sorted by descending field key.
RECURSIVE InsertDesc(_, _)
InsertDesc(sorted, x) ==
    IF sorted = <<>> THEN <<x>>
    ELSE IF Head(sorted).key >= x.key
         THEN <<Head(sorted)>> \o InsertDesc(Tail(sorted), x)
         ELSE <<x>> \o sorted

\* slice::sort_by(|a, b| b.key.partial_cmp(&a.key)): stable, descending.
RECURSIVE SortDesc(_)
SortDesc(s) ==
    IF s = <<>> THEN <<>>
    ELSE InsertDesc(SortDesc(SubSeq(s, 1, Len(s) - 1)), s[Len(s)])

-----------------------------------------------------------------------------
(* Vocabulary and documents *)

Words == {"aa", "bb", "c"}

\* Byte length of a word; w32, w33, w64 and w65 stand for runs of letters
\* of those lengths
WordLen(w) ==
    CASE w = "c" -> 1
      [] w = "w32" -> 32
      [] w = "w33" -> 33
      [] w = "w64" -> 64
      [] w = "w65" -> 65
      [] OTHER -> 2

\* FNV-1a of the lowercased token, reduced to small distinct integers.
Fnv1a(w) ==
    CASE w = "aa" -> 1 [] w = "bb" -> 2
      [] w = "w32" -> 4 [] w = "w33" -> 5 [] w = "w64" -> 6 [] w = "w65" -> 7
      [] OTHER -> 3

Terms == {w \in Words : WordLen(w) >= MIN_LENGTH}

Run(w, n) == [w |-> w, n |-> n]

Texts ==
    { <<Run("aa", 1)>>,
      <<Run("aa", 1), Run("bb", 1)>>,
      <<Run("c", 1)>> }

Queries == { <<Run("aa", 1)>>, <<Run("bb", 1)>>, <<Run("aa", 1), Run("bb", 1)>>, <<>> }

\* External ids are chosen by the caller; the model's caller numbers them.
ExtId(n) == 100 + n

Document(id, text) == [id |-> id, text |-> text]

\* FNV-1a of the external id's bytes, reduced to a small integer.
IdHash(id) == (id * 31) % 251

-----------------------------------------------------------------------------
(* Hash maps: functions with a finite domain *)

EmptyMap == [k \in {} |-> 0]

MapGet(m, k, default) == IF k \in DOMAIN m THEN m[k] ELSE default

MapPut(m, k, v) == [x \in (DOMAIN m) \cup {k} |-> IF x = k THEN v ELSE m[x]]

-----------------------------------------------------------------------------
(* tokenizer.rs *)

\* u8::to_ascii_lowercase over the bytes of a token.
NormalizeToken(w) == CASE w = "AA" -> "aa" [] w = "BB" -> "bb" [] OTHER -> w

\* `*freqs.entry(token).or_insert(0) += 1`, once per occurrence of the run.
CountToken(freqs, w, n) == MapPut(freqs, w, (MapGet(freqs, w, 0) + n) % (U16_MAX + 1))

\* A tokenizer without the token-length test
RECURSIVE TokenizeIntoUnbounded(_, _, _, _)
TokenizeIntoUnbounded(freqs, text, minLen, maxLen) ==
    IF text = <<>> THEN freqs
    ELSE TokenizeIntoUnbounded(CountToken(freqs, NormalizeToken(Head(text).w), Head(text).n),
                               Tail(text), minLen, maxLen)

RECURSIVE TokenizeInto(_, _, _, _)
TokenizeInto(freqs, text, minLen, maxLen) ==
    IF text = <<>> THEN freqs
    ELSE LET r == Head(text)
             keep == WordLen(r.w) >= minLen /\ WordLen(r.w) <= maxLen
         IN TokenizeInto(IF keep THEN CountToken(freqs, NormalizeToken(r.w), r.n) ELSE freqs,
                         Tail(text), minLen, maxLen)

\* FastTokenizer::default().tokenize_with_freqs
TokenizeWithFreqs(text) == TokenizeInto(EmptyMap, text, MIN_LENGTH, MAX_LENGTH)

\* FastTokenizer::tokenize_query: the distinct terms of the query
TokenizeQuery(query) == DOMAIN TokenizeWithFreqs(query)

\* doc_len: u32 = term_freqs.values().sum()
RECURSIVE SumFreqs(_, _)
SumFreqs(freqs, keys) ==
    IF keys = {} THEN 0
    ELSE LET k == CHOOSE x \in keys : TRUE
         IN freqs[k] + SumFreqs(freqs, keys \ {k})

DocLenOf(freqs) == SumFreqs(freqs, DOMAIN freqs)

\* The (id, term_freqs, doc_len) triple every pending-buffer profile keeps.
TokenizeDoc(doc) ==
    LET tfs == TokenizeWithFreqs(doc.text)
    IN [id |-> doc.id, tfs |-> tfs, doc_len |-> DocLenOf(tfs)]

TokenizeDocs(docs) == [i \in 1..Len(docs) |-> TokenizeDoc(docs[i])]

-----------------------------------------------------------------------------
(* profiles/mod.rs: BM25 *)

\* 10^4 * ln((N - df + 0.5) / (df + 0.5) + 1), row N, column df.
IdfTable ==
    << <<2877>>,
       <<6931, 1823>>,
       <<9808, 4700, 1335>>,
       <<12040, 6931, 3567, 1054>>,
       <<13863, 8755, 5390, 2877, 870>>,
       <<15404, 10296, 6931, 4418, 2412, 741>>,
       <<16740, 11632, 8267, 5754, 3747, 2076, 645>>,
       <<17918, 12809, 9445, 6931, 4925, 3254, 1823, 572>> >>

IdfFx(total_docs, df) ==
    IF total_docs \in 1..Len(IdfTable) /\ df \in 1..total_docs
    THEN IdfTable[total_docs][df] ELSE 0

\* avg_doc_len = total_doc_length as f32 / doc_count as f32, kept as a ratio.
AvgDocLen(total_doc_length, doc_count) == [num |-> total_doc_length, den |-> doc_count]

\* tf (k1 + 1) / (tf + k1 (1 - b + b dl / avg)) with k1 = 1.2, b = 0.75,
\* scaled by 10^3: 22 tf / (10 tf + 3 + 9 dl / avg). Operands beyond
\* 300 take dl / avg rounded down first, which keeps every intermediate
\* value within 32 bits.
TfFx(tf, doc_len, avg) ==
    IF avg.num = 0 THEN 0
    ELSE IF tf <= 300 /\ avg.num <= 300 /\ doc_len <= 300
         THEN (22000 * tf * avg.num)
                  \div (10 * tf * avg.num + 3 * avg.num + 9 * doc_len * avg.den)
         ELSE (22000 * tf) \div (10 * tf + 3 + (9 * doc_len * avg.den) \div avg.num)

\* Bm25Params::score
Bm25Score(tf, df, doc_len, avg, total_docs) == IdfFx(total_docs, df) * TfFx(tf, doc_len, avg)

-----------------------------------------------------------------------------
(* The top-k min-heap: BinaryHeap<Reverse<(OrderedFloat, u32)>>, a set of   *)
(* <<score, doc_id>> pairs ordered by score, then doc id.                   *)

PairLess(a, b) == a[1] < b[1] \/ (a[1] = b[1] /\ a[2] < b[2])

HeapMin(h) == CHOOSE e \in h : \A f \in h : e = f \/ PairLess(e, f)

HeapMax(h) == CHOOSE e \in h : \A f \in h : e = f \/ PairLess(f, e)

\* BinaryHeap::pop on the min-heap; None on an empty heap.
HeapPop(h) == IF h = {} THEN h ELSE h \ {HeapMin(h)}

EmptyTopK == [heap |-> {}, threshold |-> 0]

\* One iteration of the "build top-k" loop.
TopKInsert(st, entry, k) ==
    IF Cardinality(st.heap) < k
    THEN LET h == st.heap \cup {entry}
         IN [heap |-> h,
             threshold |-> IF Cardinality(h) = k THEN HeapMin(h)[1] ELSE st.threshold]
    ELSE IF entry[1] > st.threshold
    THEN LET h == HeapPop(st.heap) \cup {entry}
         IN [heap |-> h, threshold |-> HeapMin(h)[1]]
    ELSE st

RECURSIVE BuildTopK(_, _, _)
BuildTopK(st, entries, k) ==
    IF entries = <<>> THEN st
    ELSE BuildTopK(TopKInsert(st, Head(entries), k), Tail(entries), k)

\* BinaryHeap::into_sorted_vec of Reverse<..>: ascending in Reverse, that is
\* descending in (score, doc_id).
RECURSIVE IntoSortedVec(_)
IntoSortedVec(h) ==
    IF h = {} THEN <<>>
    ELSE LET m == HeapMax(h) IN <<m>> \o IntoSortedVec(h \ {m})

\* .skip(offset).take(limit)
SkipTake(s, offset, limit) ==
    IF offset >= Len(s) THEN <<>>
    ELSE SubSeq(s, offset + 1, Min2(Len(s), offset + limit))

\* into_sorted_vec().skip(offset).take(limit) ... collect(); results.reverse()
ExtractResults(h, limit, offset) == ReverseSeq(SkipTake(IntoSortedVec(h), offset, limit))

\* SearchHit::new(doc_ids[doc_id].clone(), score), or doc_<n> when absent
HitOf(doc_ids, pair) ==
    [id |-> IF pair[2] < Len(doc_ids) THEN doc_ids[pair[2] + 1] ELSE -1 - pair[2],
     score |-> pair[1]]

HitsOf(doc_ids, pairs) == [i \in 1..Len(pairs) |-> HitOf(doc_ids, pairs[i])]

\* for (doc_id, score) in scored: the entries of the map in iteration order
ScoredEntries(scored, order) == [i \in 1..Len(order) |-> <<scored[order[i]], order[i]>>]

\* std HashMap (RandomState): any order of the keys, chosen anew per map.
StdHashOrders(scored) == Perms(DOMAIN scored)

\* FxHashMap: an order fixed by the hasher; fxOrder ranks the doc ids.
FxHashOrder(scored, rank) ==
    LET keys == DOMAIN scored
        Pos(d) == CHOOSE i \in 1..Len(rank) : rank[i] = d
        posSeq == SetToAscSeq({Pos(d) : d \in keys})
    IN [i \in 1..Len(posSeq) |-> rank[posSeq[i]]]

-----------------------------------------------------------------------------
(* profiles/ultra.rs *)

PostingListNew == [entries |-> <<>>, block_maxes |-> <<>>, df |-> 0, idf |-> 0]

IndexShardNew == [term_dict |-> EmptyMap, postings |-> <<>>]

UltraNew ==
    [shards |-> [s \in 1..NUM_SHARDS |-> IndexShardNew],
     doc_lengths |-> <<>>, doc_id_hashes |-> <<>>, doc_ids |-> <<>>,
     doc_count |-> 0, total_doc_length |-> 0, block_maxes_dirty |-> TRUE]

\* (hash & SHARD_MASK) as usize
ShardForHash(hash) == hash % NUM_SHARDS

\* tokenize_fast_hash_only: (term_hash, freq) pairs of the tokens of length
\* 2..=32, in the iteration order of the FxHashMap (fixed by the hashes).
TokenizeFastHashOnly(text) ==
    LET tfs == TokenizeInto(EmptyMap, text, MIN_LENGTH, ULTRA_MAX_LEN)
        hs == SetToAscSeq({Fnv1a(w) : w \in DOMAIN tfs})
    IN [i \in 1..Len(hs) |-> <<hs[i], tfs[CHOOSE w \in DOMAIN tfs : Fnv1a(w) = hs[i]]>>]

\* tokenize_fast, one run of n occurrences of a token: the token of 2..=32
\* bytes is lowercased and hashed, then
\* `freqs.entry(hash).and_modify(|(f, _)| *f = f.saturating_add(1))
\*       .or_insert((1, term))`, once per occurrence (the closing "handle
\* last token" branch repeats the step of the loop).
FastCountRun(freqs, w, n) ==
    LET term == NormalizeToken(w)
        hash == Fnv1a(term)
        f == IF hash \in DOMAIN freqs THEN freqs[hash].f ELSE 0
    IN IF WordLen(w) >= 2 /\ WordLen(w) <= 32
       THEN MapPut(freqs, hash, [f |-> Min2(f + n, U16_MAX), t |-> term])
       ELSE freqs

RECURSIVE TokenizeFastInto(_, _)
TokenizeFastInto(freqs, text) ==
    IF text = <<>> THEN freqs
    ELSE TokenizeFastInto(FastCountRun(freqs, Head(text).w, Head(text).n), Tail(text))

\* tokenize_fast, as search_fast uses it: the hashes of the query's terms,
\* in the iteration order of the FxHashMap
TokenizeFast(text) == SetToAscSeq(DOMAIN TokenizeFastInto(EmptyMap, text))

\* PostingList::compute_block_maxes
ComputeBlockMaxes(posting, doc_lengths, avg_doc_len, total_docs) ==
    LET chunks == Chunks(posting.entries, ULTRA_BLOCK_SIZE)
        EntryScore(entry) ==
            IF entry.doc_id < Len(doc_lengths)
            THEN Bm25Score(entry.freq, posting.df, doc_lengths[entry.doc_id + 1],
                           avg_doc_len, total_docs)
            ELSE 0
        MaxOf(chunk) ==
            LET scs == {EntryScore(chunk[i]) : i \in 1..Len(chunk)} \cup {0}
            IN CHOOSE m \in scs : \A x \in scs : x <= m
    IN [posting EXCEPT !.block_maxes = [c \in 1..Len(chunks) |-> MaxOf(chunks[c])]]

\* UltraProfile::compute_all_block_maxes
ComputeAllBlockMaxes(e) ==
    IF ~e.block_maxes_dirty \/ e.doc_count = 0 THEN e
    ELSE LET avg == AvgDocLen(e.total_doc_length, e.doc_count)
         IN [e EXCEPT
               !.shards = [s \in 1..NUM_SHARDS |->
                   [e.shards[s] EXCEPT !.postings =
                       [p \in 1..Len(e.shards[s].postings) |->
                           ComputeBlockMaxes(e.shards[s].postings[p], e.doc_lengths,
                                             avg, e.doc_count)]]],
               !.block_maxes_dirty = FALSE]

\* index_batch, phase 1: (doc id, external id, terms by shard, doc_len)
UltraTokenized(base_doc_id, docs) ==
    [i \in 1..Len(docs) |->
        LET terms == TokenizeFastHashOnly(docs[i].text)
        IN [doc_id |-> base_doc_id + (i - 1),
            id |-> docs[i].id,
            terms |-> terms,
            doc_len |-> Min2(SumSeq([j \in 1..Len(terms) |-> terms[j][2]]), U16_MAX)]]

\* As ShardAddTerm, also dropping the block maxes of the list it appends to.
ShardAddTermDropMaxes(shard, doc_id, hash, freq) ==
    LET known == hash \in DOMAIN shard.term_dict
        idx == IF known THEN shard.term_dict[hash] ELSE Len(shard.postings)
        dict == IF known THEN shard.term_dict ELSE MapPut(shard.term_dict, hash, idx)
        posts == IF known THEN shard.postings ELSE Append(shard.postings, PostingListNew)
    IN [term_dict |-> dict,
        postings |-> [posts EXCEPT
            ![idx + 1] = [@ EXCEPT !.entries = Append(@, [doc_id |-> doc_id, freq |-> freq]),
                                   !.df = @ + 1, !.block_maxes = <<>>]]]

\* index_batch, phase 3, for one (hash, freq) of one document
ShardAddTerm(shard, doc_id, hash, freq) ==
    LET known == hash \in DOMAIN shard.term_dict
        idx == IF known THEN shard.term_dict[hash] ELSE Len(shard.postings)
        dict == IF known THEN shard.term_dict ELSE MapPut(shard.term_dict, hash, idx)
        posts == IF known THEN shard.postings ELSE Append(shard.postings, PostingListNew)
    IN [term_dict |-> dict,
        postings |-> [posts EXCEPT
            ![idx + 1] = [@ EXCEPT !.entries = Append(@, [doc_id |-> doc_id, freq |-> freq]),
                                   !.df = @ + 1]]]

RECURSIVE ShardAddTerms(_, _, _, _)
ShardAddTerms(shard, shard_idx, doc_id, terms) ==
    IF terms = <<>> THEN shard
    ELSE LET t == Head(terms)
         IN ShardAddTerms(IF ShardForHash(t[1]) = shard_idx
                          THEN ShardAddTerm(shard, doc_id, t[1], t[2]) ELSE shard,
                          shard_idx, doc_id, Tail(terms))

RECURSIVE ShardAddDocs(_, _, _)
ShardAddDocs(shard, shard_idx, tokenized) ==
    IF tokenized = <<>> THEN shard
    ELSE ShardAddDocs(ShardAddTerms(shard, shard_idx, Head(tokenized).doc_id,
                                    Head(tokenized).terms),
                      shard_idx, Tail(tokenized))

\* As UltraIndexBatch, without the final block_maxes_dirty = true.
UltraIndexBatchKeepFlag(e, docs) ==
    IF docs = <<>> THEN e
    ELSE LET tokenized == UltraTokenized(e.doc_count, docs)
             lengths == [i \in 1..Len(tokenized) |-> tokenized[i].doc_len]
         IN [shards |-> [s \in 1..NUM_SHARDS |-> ShardAddDocs(e.shards[s], s - 1, tokenized)],
             doc_lengths |-> e.doc_lengths \o lengths,
             doc_id_hashes |-> e.doc_id_hashes \o
                 [i \in 1..Len(tokenized) |-> IdHash(tokenized[i].id)],
             doc_ids |-> e.doc_ids \o [i \in 1..Len(tokenized) |-> tokenized[i].id],
             doc_count |-> e.doc_count + Len(docs),
             total_doc_length |-> e.total_doc_length + SumSeq(lengths),
             block_maxes_dirty |-> e.block_maxes_dirty]

\* UltraProfile::index_batch
UltraIndexBatch(e, docs) ==
    IF docs = <<>> THEN e
    ELSE LET tokenized == UltraTokenized(e.doc_count, docs)
             lengths == [i \in 1..Len(tokenized) |-> tokenized[i].doc_len]
         IN [shards |-> [s \in 1..NUM_SHARDS |-> ShardAddDocs(e.shards[s], s - 1, tokenized)],
             doc_lengths |-> e.doc_lengths \o lengths,
             doc_id_hashes |-> e.doc_id_hashes \o
                 [i \in 1..Len(tokenized) |-> IdHash(tokenized[i].id)],
             doc_ids |-> e.doc_ids \o [i \in 1..Len(tokenized) |-> tokenized[i].id],
             doc_count |-> e.doc_count + Len(docs),
             total_doc_length |-> e.total_doc_length + SumSeq(lengths),
             block_maxes_dirty |-> TRUE]

\* commit, "compute IDFs (deferred from indexing for speed)"
UltraComputeIdf(e) ==
    IF e.doc_count > 0
    THEN [e EXCEPT !.shards = [s \in 1..NUM_SHARDS |->
             [e.shards[s] EXCEPT !.postings =
                 [p \in 1..Len(e.shards[s].postings) |->
                     [e.shards[s].postings[p] EXCEPT
                         !.idf = IdfFx(e.doc_count, e.shards[s].postings[p].df)]]]]]
    ELSE e

\* UltraProfile::commit
UltraCommit(e) == ComputeAllBlockMaxes(UltraComputeIdf(e))

\* UltraProfile::clear (doc_id_hashes is left as it is)
UltraClear(e) ==
    [e EXCEPT !.shards = [s \in 1..NUM_SHARDS |-> IndexShardNew],
              !.doc_lengths = <<>>, !.doc_ids = <<>>,
              !.doc_count = 0, !.total_doc_length = 0, !.block_maxes_dirty = TRUE]

\* search_fast, "score documents": one posting list's entries added to scored
RECURSIVE UltraScoreEntries(_, _, _, _, _, _)
UltraScoreEntries(scored, entries, df, doc_lengths, avg_doc_len, total_docs) ==
    IF entries = <<>> THEN scored
    ELSE LET entry == Head(entries)
             next ==
                IF entry.doc_id < Len(doc_lengths)
                THEN MapPut(scored, entry.doc_id,
                            MapGet(scored, entry.doc_id, 0)
                            + Bm25Score(entry.freq, df, doc_lengths[entry.doc_id + 1],
                                        avg_doc_len, total_docs))
                ELSE scored
         IN UltraScoreEntries(next, Tail(entries), df, doc_lengths, avg_doc_len, total_docs)

\* The blocks of a posting list the scoring loop does not skip: a block is
\* skipped when its block max is below the threshold and the heap is not
\* empty; the loop runs with the initial threshold and the empty heap.
UltraScoredBlocks(posting, st) ==
    LET chunks == Chunks(posting.entries, ULTRA_BLOCK_SIZE)
        Skip(b) == /\ b <= Len(posting.block_maxes)
                   /\ posting.block_maxes[b] < st.threshold
                   /\ st.heap # {}
    IN [b \in 1..Len(chunks) |-> IF Skip(b) THEN <<>> ELSE chunks[b]]

RECURSIVE ConcatAll(_)
ConcatAll(ss) == IF ss = <<>> THEN <<>> ELSE Head(ss) \o ConcatAll(Tail(ss))

RECURSIVE UltraScorePostings(_, _, _, _, _)
UltraScorePostings(scored, query_postings, doc_lengths, avg_doc_len, total_docs) ==
    IF query_postings = <<>> THEN scored
    ELSE LET posting == Head(query_postings).posting
         IN UltraScorePostings(
                UltraScoreEntries(scored, ConcatAll(UltraScoredBlocks(posting, EmptyTopK)),
                                  posting.df, doc_lengths, avg_doc_len, total_docs),
                Tail(query_postings), doc_lengths, avg_doc_len, total_docs)

\* The query's posting lists with their upper bounds idf * (k1 + 1)
RECURSIVE UltraQueryPostings(_, _)
UltraQueryPostings(e, query_terms) ==
    IF query_terms = <<>> THEN <<>>
    ELSE LET hash == Head(query_terms)
             shard == e.shards[ShardForHash(hash) + 1]
             rest == UltraQueryPostings(e, Tail(query_terms))
         IN IF hash \in DOMAIN shard.term_dict
            THEN LET posting == shard.postings[shard.term_dict[hash] + 1]
                 IN <<[posting |-> posting, key |-> posting.idf * 22]>> \o rest
            ELSE rest

\* UltraProfile::search_fast: the hits, given the FxHashMap iteration rank.
\* The engine it reads is the one compute_all_block_maxes has refreshed.
UltraSearchFast(e0, query, limit, offset, rank) ==
    LET e == ComputeAllBlockMaxes(e0)
        query_terms == TokenizeFast(query)
        query_postings == SortDesc(UltraQueryPostings(e, query_terms))
        scored == UltraScorePostings(EmptyMap, query_postings, e.doc_lengths,
                                     AvgDocLen(e.total_doc_length, e.doc_count), e.doc_count)
        top_k == BuildTopK(EmptyTopK, ScoredEntries(scored, FxHashOrder(scored, rank)),
                           limit + offset)
    IN IF e.doc_count = 0 \/ query_terms = <<>> \/ query_postings = <<>> THEN <<>>
       ELSE HitsOf(e.doc_ids, ExtractResults(top_k.heap, limit, offset))

\* UltraProfile::save: the content of ultra.idx
UltraSave(e) ==
    [file |-> "ultra.idx",
     doc_count |-> e.doc_count,
     total_doc_length |-> e.total_doc_length,
     shards |-> [s \in 1..NUM_SHARDS |->
         [term_dict |-> e.shards[s].term_dict,
          postings |-> [p \in 1..Len(e.shards[s].postings) |->
              [df |-> e.shards[s].postings[p].df,
               idf |-> e.shards[s].postings[p].idf,
               entries |-> e.shards[s].postings[p].entries]]]],
     doc_lengths |-> e.doc_lengths,
     doc_ids |-> e.doc_ids]

\* UltraProfile::load into a new profile (version 2 format)
UltraLoad(e, image) ==
    IF image.file # "ultra.idx" THEN e
    ELSE [e EXCEPT
            !.total_doc_length = image.total_doc_length,
            !.shards = [s \in 1..NUM_SHARDS |->
                [term_dict |-> image.shards[s].term_dict,
                 postings |-> [p \in 1..Len(image.shards[s].postings) |->
                     [entries |-> image.shards[s].postings[p].entries,
                      block_maxes |-> <<>>,
                      df |-> image.shards[s].postings[p].df,
                      idf |-> image.shards[s].postings[p].idf]]]],
            !.doc_lengths = image.doc_lengths,
            !.doc_ids = image.doc_ids,
            !.doc_count = image.doc_count,
            !.block_maxes_dirty = TRUE]

-----------------------------------------------------------------------------
(* Block postings shared in shape by ensemble.rs, turbo.rs and bmw_simd.rs *)

\* Terms in a fixed order (offsets of new terms follow it; no lookup depends
\* on which offset a term gets).
TermsAsc(S) ==
    LET hs == SetToAscSeq({Fnv1a(w) : w \in S})
    IN [i \in 1..Len(hs) |-> CHOOSE w \in S : Fnv1a(w) = hs[i]]

\* doc_len as u16
AsU16(n) == n % (U16_MAX + 1)

\* term_posts: term -> [(doc_id, freq)] over the pending documents, in order
RECURSIVE PostsOf(_, _, _, _)
PostsOf(term, pending, base_doc_id, i) ==
    IF i > Len(pending) THEN <<>>
    ELSE (IF term \in DOMAIN pending[i].tfs
          THEN <<[doc_id |-> base_doc_id + (i - 1), freq |-> pending[i].tfs[term]]>>
          ELSE <<>>) \o PostsOf(term, pending, base_doc_id, i + 1)

TermPosts(pending, base_doc_id) ==
    LET terms == UNION {DOMAIN pending[i].tfs : i \in 1..Len(pending)}
    IN [t \in terms |-> PostsOf(t, pending, base_doc_id, 1)]

\* "Build blocks": posts.chunks(BLOCK_SIZE) with each block's max score
BuildBlocks(posts, df, doc_lengths, avg_doc_len, total_docs, block_size) ==
    LET chunks == Chunks(posts, block_size)
        MaxOf(chunk) ==
            LET scs == {Bm25Score(chunk[i].freq, df, doc_lengths[chunk[i].doc_id + 1],
                                  avg_doc_len, total_docs) : i \in 1..Len(chunk)} \cup {0}
            IN CHOOSE m \in scs : \A x \in scs : x <= m
    IN [c \in 1..Len(chunks) |->
           [doc_ids |-> [i \in 1..Len(chunks[c]) |-> chunks[c][i].doc_id],
            freqs |-> [i \in 1..Len(chunks[c]) |-> chunks[c][i].freq],
            max_score |-> MaxOf(chunks[c])]]

\* As WithPendingDocs, but the document counter is left as it was.
WithPendingDocsNoCount(e) ==
    [e EXCEPT
        !.doc_ids = @ \o [i \in 1..Len(e.pending) |-> e.pending[i].id],
        !.doc_lengths = @ \o [i \in 1..Len(e.pending) |-> AsU16(e.pending[i].doc_len)],
        !.total_doc_length = @ + SumSeq([i \in 1..Len(e.pending) |-> e.pending[i].doc_len])]

\* The state every build of a batch starts from: ids, lengths and counters
\* extended by the pending documents.
WithPendingDocs(e) ==
    [e EXCEPT
        !.doc_ids = @ \o [i \in 1..Len(e.pending) |-> e.pending[i].id],
        !.doc_lengths = @ \o [i \in 1..Len(e.pending) |-> AsU16(e.pending[i].doc_len)],
        !.total_doc_length = @ + SumSeq([i \in 1..Len(e.pending) |-> e.pending[i].doc_len]),
        !.doc_count = @ + Len(e.pending)]

\* avg_doc_len as the build computes it
BuildAvgDocLen(e) ==
    IF e.doc_count > 0 THEN AvgDocLen(e.total_doc_length, e.doc_count) ELSE AvgDocLen(1, 1)

\* As MergeTerm, but a merge assigns the batch's bitmap instead of the union.
MergeTermAssignBitmap(e, dict, term, posts, block_size) ==
    LET df == Len(posts)
        bitmap == {posts[i].doc_id : i \in 1..Len(posts)}
        blocks == BuildBlocks(posts, df, e.doc_lengths, BuildAvgDocLen(e), e.doc_count,
                              block_size)
    IN IF term \in DOMAIN dict
       THEN [dict |-> dict,
             postings |-> [e.postings EXCEPT ![dict[term] + 1] =
                 [bitmap |-> bitmap,
                  blocks |-> @.blocks \o blocks,
                  df |-> @.df + df,
                  idf |-> IdfFx(e.doc_count, @.df + df)]]]
       ELSE [dict |-> MapPut(dict, term, Len(e.postings)),
             postings |-> Append(e.postings,
                 [bitmap |-> bitmap, blocks |-> blocks, df |-> df,
                  idf |-> IdfFx(e.doc_count, df)])]

\* "Insert or merge" of one term's batch posting (ensemble, turbo)
MergeTerm(e, dict, term, posts, block_size) ==
    LET df == Len(posts)
        bitmap == {posts[i].doc_id : i \in 1..Len(posts)}
        blocks == BuildBlocks(posts, df, e.doc_lengths, BuildAvgDocLen(e), e.doc_count,
                              block_size)
    IN IF term \in DOMAIN dict
       THEN [dict |-> dict,
             postings |-> [e.postings EXCEPT ![dict[term] + 1] =
                 [bitmap |-> @.bitmap \cup bitmap,
                  blocks |-> @.blocks \o blocks,
                  df |-> @.df + df,
                  idf |-> IdfFx(e.doc_count, @.df + df)]]]
       ELSE [dict |-> MapPut(dict, term, Len(e.postings)),
             postings |-> Append(e.postings,
                 [bitmap |-> bitmap, blocks |-> blocks, df |-> df,
                  idf |-> IdfFx(e.doc_count, df)])]

\* The entries of a posting's blocks the scoring loop does not skip
ScoredBlockEntries(posting, st) ==
    LET Skip(b) == posting.blocks[b].max_score < st.threshold /\ st.heap # {}
    IN ConcatAll([b \in 1..Len(posting.blocks) |->
           IF Skip(b) THEN <<>>
           ELSE [i \in 1..Len(posting.blocks[b].doc_ids) |->
                    [doc_id |-> posting.blocks[b].doc_ids[i],
                     freq |-> posting.blocks[b].freqs[i]]]])

\* *scored.entry(doc_id).or_insert(0.0) += score over the query's postings
RECURSIVE ScoreEntries(_, _, _, _, _, _)
ScoreEntries(scored, entries, df, doc_lengths, avg_doc_len, total_docs) ==
    IF entries = <<>> THEN scored
    ELSE LET entry == Head(entries)
         IN ScoreEntries(MapPut(scored, entry.doc_id,
                             MapGet(scored, entry.doc_id, 0)
                             + Bm25Score(entry.freq, df, doc_lengths[entry.doc_id + 1],
                                         avg_doc_len, total_docs)),
                         Tail(entries), df, doc_lengths, avg_doc_len, total_docs)

RECURSIVE ScorePostings(_, _, _, _, _)
ScorePostings(scored, query_postings, doc_lengths, avg_doc_len, total_docs) ==
    IF query_postings = <<>> THEN scored
    ELSE LET qp == Head(query_postings)
         IN ScorePostings(ScoreEntries(scored, qp.entries, qp.df, doc_lengths,
                                       avg_doc_len, total_docs),
                          Tail(query_postings), doc_lengths, avg_doc_len, total_docs)

\* The hit lists a top-k pass over a std HashMap can produce
StdTopKOutcomes(scored, doc_ids, limit, offset) ==
    {HitsOf(doc_ids,
            ExtractResults(BuildTopK(EmptyTopK, ScoredEntries(scored, order),
                                     limit + offset).heap, limit, offset))
        : order \in StdHashOrders(scored)}

RECURSIVE MergeTerms(_, _, _, _, _)
MergeTerms(e, dict, terms, term_posts, block_size) ==
    IF terms = <<>> THEN [dict |-> dict, postings |-> e.postings]
    ELSE LET m == MergeTerm(e, dict, Head(terms), term_posts[Head(terms)], block_size)
         IN MergeTerms([e EXCEPT !.postings = m.postings], m.dict, Tail(terms),
                       term_posts, block_size)

\* The query's postings found in the dictionary, with their upper bounds,
\* sorted by upper bound descending
QueryPostings(dict, postings, query_terms) ==
    LET found == SelectSeq(query_terms, LAMBDA t : t \in DOMAIN dict)
    IN SortDesc([i \in 1..Len(found) |->
           LET posting == postings[dict[found[i]] + 1]
           IN [entries |-> ScoredBlockEntries(posting, EmptyTopK),
               df |-> posting.df,
               key |-> posting.idf * 22]])

\* search_ensemble / search_bmw of turbo: every hit list the call can return
BlockSearchOutcomes(e, dict, query, limit, offset) ==
    LET query_terms == TermsAsc(TokenizeQuery(query))
        query_postings == QueryPostings(dict, e.postings, query_terms)
        scored == ScorePostings(EmptyMap, query_postings, e.doc_lengths,
                                AvgDocLen(e.total_doc_length, e.doc_count), e.doc_count)
    IN IF e.doc_count = 0 \/ query_terms = <<>> \/ query_postings = <<>> THEN {<<>>}
       ELSE StdTopKOutcomes(scored, e.doc_ids, limit, offset)

-----------------------------------------------------------------------------
(* profiles/ensemble.rs *)

EnsembleNew ==
    [fst |-> <<>>, term_offsets |-> EmptyMap, postings |-> <<>>,
     doc_lengths |-> <<>>, doc_ids |-> <<>>, doc_count |-> 0, total_doc_length |-> 0,
     pending |-> <<>>, fst_dirty |-> TRUE]

\* As EnsembleBuildIndex, without fst_dirty = true.
EnsembleBuildIndexKeepFst(e) ==
    IF e.pending = <<>> THEN e
    ELSE LET e1 == WithPendingDocs(e)
             term_posts == TermPosts(e.pending, e.doc_count)
             m == MergeTerms(e1, e1.term_offsets, TermsAsc(DOMAIN term_posts), term_posts,
                             ENSEMBLE_BLOCK_SIZE)
         IN [e1 EXCEPT !.term_offsets = m.dict, !.postings = m.postings]

\* EnsembleProfile::build_index
EnsembleBuildIndex(e) ==
    IF e.pending = <<>> THEN e
    ELSE LET e1 == WithPendingDocs(e)
             term_posts == TermPosts(e.pending, e.doc_count)
             m == MergeTerms(e1, e1.term_offsets, TermsAsc(DOMAIN term_posts), term_posts,
                             ENSEMBLE_BLOCK_SIZE)
         IN [e1 EXCEPT !.term_offsets = m.dict, !.postings = m.postings, !.fst_dirty = TRUE]

\* EnsembleProfile::rebuild_fst: the FST is the sorted (term, offset) list
EnsembleRebuildFst(e) ==
    IF ~e.fst_dirty \/ DOMAIN e.term_offsets = {} THEN e
    ELSE LET terms == TermsAsc(DOMAIN e.term_offsets)
         IN [e EXCEPT !.fst = [i \in 1..Len(terms) |-> <<terms[i], e.term_offsets[terms[i]]>>],
                      !.fst_dirty = FALSE]

EnsembleIndexBatch(e, docs) == [e EXCEPT !.pending = @ \o TokenizeDocs(docs)]

\* As EnsembleCommit, without pending.clear().
EnsembleCommitKeepPending(e) == EnsembleBuildIndex(e)

EnsembleCommit(e) == [EnsembleBuildIndex(e) EXCEPT !.pending = <<>>]

EnsembleSearchOutcomes(e, query, limit, offset) ==
    BlockSearchOutcomes(EnsembleRebuildFst(e), e.term_offsets, query, limit, offset)

\* EnsembleProfile::save: the content of ensemble.idx (after rebuild_fst)
EnsembleSave(e0) ==
    LET e == EnsembleRebuildFst(e0)
    IN [file |-> "ensemble.idx", doc_count |-> e.doc_count,
        total_doc_length |-> e.total_doc_length, fst |-> e.fst,
        term_offsets |-> e.term_offsets, postings |-> e.postings,
        doc_lengths |-> e.doc_lengths, doc_ids |-> e.doc_ids]

EnsembleLoad(e, image) ==
    [e EXCEPT !.fst = image.fst, !.term_offsets = image.term_offsets,
              !.postings = image.postings, !.doc_lengths = image.doc_lengths,
              !.doc_ids = image.doc_ids, !.doc_count = image.doc_count,
              !.total_doc_length = image.total_doc_length, !.fst_dirty = FALSE]

EnsembleClear(e) ==
    [e EXCEPT !.fst = <<>>, !.term_offsets = EmptyMap, !.postings = <<>>,
              !.doc_lengths = <<>>, !.doc_ids = <<>>, !.doc_count = 0,
              !.total_doc_length = 0, !.pending = <<>>, !.fst_dirty = TRUE]

-----------------------------------------------------------------------------
(* profiles/turbo.rs *)

TurboNew ==
    [term_dict |-> EmptyMap, postings |-> <<>>, doc_lengths |-> <<>>, doc_ids |-> <<>>,
     doc_count |-> 0, total_doc_length |-> 0, pending |-> <<>>]

\* TurboProfile::build_from_pending
BuildFromPending(e) ==
    IF e.pending = <<>> THEN e
    ELSE LET e1 == WithPendingDocs(e)
             term_posts == TermPosts(e.pending, e.doc_count)
             m == MergeTerms(e1, e1.term_dict, TermsAsc(DOMAIN term_posts), term_posts,
                             TURBO_BLOCK_SIZE)
         IN [e1 EXCEPT !.term_dict = m.dict, !.postings = m.postings, !.pending = <<>>]

\* TurboProfile::index_batch, with its auto-flush
TurboIndexBatch(e, docs) ==
    LET e1 == [e EXCEPT !.pending = @ \o TokenizeDocs(docs)]
    IN IF Len(e1.pending) >= SEGMENT_SIZE THEN BuildFromPending(e1) ELSE e1

TurboCommit(e) == BuildFromPending(e)

TurboSearchOutcomes(e, query, limit, offset) ==
    BlockSearchOutcomes(e, e.term_dict, query, limit, offset)

TurboSave(e) ==
    [file |-> "turbo.idx", doc_count |-> e.doc_count,
     total_doc_length |-> e.total_doc_length, term_dict |-> e.term_dict,
     postings |-> e.postings, doc_lengths |-> e.doc_lengths, doc_ids |-> e.doc_ids]

TurboLoad(e, image) ==
    [e EXCEPT !.term_dict = image.term_dict, !.postings = image.postings,
              !.doc_lengths = image.doc_lengths, !.doc_ids = image.doc_ids,
              !.doc_count = image.doc_count, !.total_doc_length = image.total_doc_length]

TurboClear(e) ==
    [e EXCEPT !.term_dict = EmptyMap, !.postings = <<>>, !.doc_lengths = <<>>,
              !.doc_ids = <<>>, !.doc_count = 0, !.total_doc_length = 0, !.pending = <<>>]

-----------------------------------------------------------------------------
(* profiles/bmw_simd.rs *)

BmwNew ==
    [term_dict |-> EmptyMap, postings |-> <<>>, doc_lengths |-> <<>>, doc_ids |-> <<>>,
     doc_count |-> 0, total_doc_length |-> 0, pending |-> <<>>]

\* build_blocks, "build blocks for each term": the term's batch blocks are
\* appended and term_dict.insert replaces whatever the term had before.
BmwBuildTerm(e, term, posts) ==
    LET df == Len(posts)
        blocks == BuildBlocks(posts, df, e.doc_lengths, BuildAvgDocLen(e), e.doc_count,
                              BMW_BLOCK_SIZE)
    IN [e EXCEPT
          !.postings = @ \o blocks,
          !.term_dict = MapPut(@, term,
              [df |-> df, posting_offset |-> Len(e.postings), num_blocks |-> Len(blocks),
               idf |-> IdfFx(e.doc_count, df)])]

RECURSIVE BmwBuildTerms(_, _, _)
BmwBuildTerms(e, terms, term_postings) ==
    IF terms = <<>> THEN e
    ELSE BmwBuildTerms(BmwBuildTerm(e, Head(terms), term_postings[Head(terms)]),
                       Tail(terms), term_postings)

\* BmwSimdProfile::build_blocks
BuildBlocksFromPending(e) ==
    IF e.pending = <<>> THEN e
    ELSE LET term_postings == TermPosts(e.pending, e.doc_count)
         IN BmwBuildTerms(WithPendingDocs(e), TermsAsc(DOMAIN term_postings), term_postings)

BmwIndexBatch(e, docs) == [e EXCEPT !.pending = @ \o TokenizeDocs(docs)]

BmwCommit(e) == [BuildBlocksFromPending(e) EXCEPT !.pending = <<>>]

\* BmwSimdProfile::search_bmw: every hit list the call can return
BmwSearchOutcomes(e, query, limit, offset) ==
    LET query_terms == TermsAsc(TokenizeQuery(query))
        found == SelectSeq(query_terms, LAMBDA t : t \in DOMAIN e.term_dict)
        query_info == SortDesc([i \in 1..Len(found) |->
            LET meta == e.term_dict[found[i]]
                blocks == SubSeq(e.postings, meta.posting_offset + 1,
                                 meta.posting_offset + meta.num_blocks)
            IN [entries |-> ScoredBlockEntries([blocks |-> blocks], EmptyTopK),
                df |-> meta.df,
                key |-> meta.idf * 22]])
        scored == ScorePostings(EmptyMap, query_info, e.doc_lengths,
                                AvgDocLen(e.total_doc_length, e.doc_count), e.doc_count)
    IN IF e.doc_count = 0 \/ query_terms = <<>> \/ query_info = <<>> THEN {<<>>}
       ELSE StdTopKOutcomes(scored, e.doc_ids, limit, offset)

BmwSave(e) ==
    [file |-> "bmw_simd.idx", doc_count |-> e.doc_count,
     total_doc_length |-> e.total_doc_length, term_dict |-> e.term_dict,
     postings |-> e.postings, doc_lengths |-> e.doc_lengths, doc_ids |-> e.doc_ids]

BmwLoad(e, image) ==
    [e EXCEPT !.term_dict = image.term_dict, !.postings = image.postings,
              !.doc_lengths = image.doc_lengths, !.doc_ids = image.doc_ids,
              !.doc_count = image.doc_count, !.total_doc_length = image.total_doc_length]

\* As BmwClear, without pending.clear().
BmwClearKeepPending(e) ==
    [e EXCEPT !.term_dict = EmptyMap, !.postings = <<>>, !.doc_lengths = <<>>,
              !.doc_ids = <<>>, !.doc_count = 0, !.total_doc_length = 0]

BmwClear(e) ==
    [e EXCEPT !.term_dict = EmptyMap, !.postings = <<>>, !.doc_lengths = <<>>,
              !.doc_ids = <<>>, !.doc_count = 0, !.total_doc_length = 0, !.pending = <<>>]

-----------------------------------------------------------------------------
(* profiles/roaring_bm25.rs *)

RoaringNew ==
    [term_dict |-> EmptyMap, postings |-> EmptyMap, term_freqs |-> EmptyMap,
     doc_lengths |-> <<>>, doc_ids |-> <<>>, doc_count |-> 0, total_doc_length |-> 0,
     pending |-> <<>>]

\* build_index, "merge into main index", for one term
RoaringMergeTerm(e, term, posts) ==
    LET bitmap == MapGet(e.postings, term, {}) \cup {posts[i].doc_id : i \in 1..Len(posts)}
        freqs == MapGet(e.term_freqs, term, <<>>) \o posts
        df == Cardinality(bitmap)
    IN [e EXCEPT !.postings = MapPut(@, term, bitmap),
                 !.term_freqs = MapPut(@, term, freqs),
                 !.term_dict = MapPut(@, term, [df |-> df, idf |-> IdfFx(e.doc_count, df)])]

RECURSIVE RoaringMergeTerms(_, _, _)
RoaringMergeTerms(e, terms, new_postings) ==
    IF terms = <<>> THEN e
    ELSE RoaringMergeTerms(RoaringMergeTerm(e, Head(terms), new_postings[Head(terms)]),
                           Tail(terms), new_postings)

\* RoaringBm25Profile::build_index
RoaringBuildIndex(e) ==
    IF e.pending = <<>> THEN e
    ELSE LET new_postings == TermPosts(e.pending, e.doc_count)
         IN RoaringMergeTerms(WithPendingDocs(e), TermsAsc(DOMAIN new_postings), new_postings)

RoaringIndexBatch(e, docs) == [e EXCEPT !.pending = @ \o TokenizeDocs(docs)]

RoaringCommit(e) == [RoaringBuildIndex(e) EXCEPT !.pending = <<>>]

\* The heap step of search_roaring: compares with the heap's minimum (peek)
RoaringInsert(heap, entry, k) ==
    IF Cardinality(heap) < k THEN heap \cup {entry}
    ELSE IF heap # {} /\ entry[1] > HeapMin(heap)[1] THEN HeapPop(heap) \cup {entry}
    ELSE heap

RECURSIVE RoaringTopK(_, _, _)
RoaringTopK(heap, entries, k) ==
    IF entries = <<>> THEN heap
    ELSE RoaringTopK(RoaringInsert(heap, Head(entries), k), Tail(entries), k)

\* freq_lookups[term].get(doc_id)
FreqLookup(freqs, doc_id) ==
    LET hit == {i \in 1..Len(freqs) : freqs[i].doc_id = doc_id}
    IN IF hit = {} THEN 0 ELSE freqs[CHOOSE i \in hit : TRUE].freq

\* RoaringBm25Profile::search_roaring
SearchRoaring(e, query, limit, offset) ==
    LET query_terms == TermsAsc(TokenizeQuery(query))
        found == SelectSeq(query_terms,
                     LAMBDA t : t \in DOMAIN e.postings /\ t \in DOMAIN e.term_dict)
        result_bitmap == UNION {e.postings[found[i]] : i \in 1..Len(found)}
        avg == AvgDocLen(e.total_doc_length, e.doc_count)
        DocScore(doc_id) ==
            SumSeq([i \in 1..Len(found) |->
                LET freq == FreqLookup(MapGet(e.term_freqs, found[i], <<>>), doc_id)
                IN IF freq = 0 THEN 0
                   ELSE Bm25Score(freq, e.term_dict[found[i]].df, e.doc_lengths[doc_id + 1],
                                  avg, e.doc_count)])
        docs == SetToAscSeq(result_bitmap)
        top_k == RoaringTopK({}, [i \in 1..Len(docs) |-> <<DocScore(docs[i]), docs[i]>>],
                             limit + offset)
    IN IF e.doc_count = 0 \/ query_terms = <<>> \/ found = <<>> THEN <<>>
       ELSE HitsOf(e.doc_ids, ExtractResults(top_k, limit, offset))

RoaringSave(e) ==
    [file |-> "roaring_bm25.idx", doc_count |-> e.doc_count,
     total_doc_length |-> e.total_doc_length, term_dict |-> e.term_dict,
     postings |-> e.postings, term_freqs |-> e.term_freqs,
     doc_lengths |-> e.doc_lengths, doc_ids |-> e.doc_ids]

RoaringLoad(e, image) ==
    [e EXCEPT !.term_dict = image.term_dict, !.postings = image.postings,
              !.term_freqs = image.term_freqs, !.doc_lengths = image.doc_lengths,
              !.doc_ids = image.doc_ids, !.doc_count = image.doc_count,
              !.total_doc_length = image.total_doc_length]

RoaringClear(e) ==
    [e EXCEPT !.term_dict = EmptyMap, !.postings = EmptyMap, !.term_freqs = EmptyMap,
              !.doc_lengths = <<>>, !.doc_ids = <<>>, !.doc_count = 0,
              !.total_doc_length = 0, !.pending = <<>>]

-----------------------------------------------------------------------------
(* profiles/seismic.rs; embeddings are fixed-point, scaled by 10^3 *)

RECURSIVE ISqrtIn(_, _, _)
ISqrtIn(n, lo, hi) ==
    IF lo >= hi THEN lo
    ELSE LET mid == (lo + hi + 1) \div 2
         IN IF mid * mid <= n THEN ISqrtIn(n, mid, hi) ELSE ISqrtIn(n, lo, mid - 1)

\* floor of the square root (f32::sqrt on the scaled operand)
ISqrt(n) == ISqrtIn(n, 0, Min2(n, 46340))

\* hash_term (djb2) reduced modulo EMBED_DIM: (5381 + the bytes) mod 32
HashTerm(term) == CASE term = "aa" -> 7 [] term = "bb" -> 9 [] OTHER -> 5

\* SeismicProfile::generate_embedding
GenerateEmbedding(tfs) ==
    LET raw == [idx \in 0..(EMBED_DIM - 1) |->
                   SumFreqs(tfs, {t \in DOMAIN tfs : HashTerm(t) % EMBED_DIM = idx})]
        sumsq == SumSeq([i \in 1..EMBED_DIM |-> raw[i - 1] * raw[i - 1]])
        norm == ISqrt(sumsq * 1000000)
    IN IF norm > 0 THEN [idx \in 0..(EMBED_DIM - 1) |-> (raw[idx] * 1000000) \div norm]
       ELSE raw

\* SeismicProfile::cosine_similarity: the dot product
CosineSimilarity(a, b) == SumSeq([i \in 1..EMBED_DIM |-> a[i - 1] * b[i - 1]])

SeismicBlockNew ==
    [doc_ids |-> <<>>, term_freqs |-> <<>>, doc_lengths |-> <<>>,
     centroid |-> [idx \in 0..(EMBED_DIM - 1) |-> 0], max_score |-> 0]

SeismicNew ==
    [blocks |-> <<>>, term_dict |-> EmptyMap, doc_ids |-> <<>>, doc_count |-> 0,
     total_doc_length |-> 0, pending |-> <<>>, current_block |-> SeismicBlockNew]

\* The sum of a document's BM25 term scores over the given terms
SeismicDocScore(tfs, terms, term_dict, doc_len, avg_doc_len, total_docs) ==
    LET ts == TermsAsc(terms \cap DOMAIN tfs)
    IN SumSeq([i \in 1..Len(ts) |->
           Bm25Score(tfs[ts[i]], MapGet(term_dict, ts[i], 1), doc_len, avg_doc_len,
                     total_docs)])

\* build_index, "finalize block if full": the block's max score
SeismicBlockMax(block, term_dict, avg_doc_len, total_docs) ==
    LET scs == {SeismicDocScore(block.term_freqs[i], DOMAIN block.term_freqs[i], term_dict,
                                block.doc_lengths[i], avg_doc_len, total_docs)
                    : i \in 1..Len(block.doc_ids)} \cup {0}
    IN CHOOSE m \in scs : \A x \in scs : x <= m

\* build_index, the loop body for pending document i (1-based)
SeismicAddDoc(e, i, old_doc_count) ==
    LET p == e.pending[i]
        total_len == e.total_doc_length + p.doc_len
        dict == [t \in DOMAIN e.term_dict \cup DOMAIN p.tfs |->
                    MapGet(e.term_dict, t, 0) + (IF t \in DOMAIN p.tfs THEN 1 ELSE 0)]
        embedding == GenerateEmbedding(p.tfs)
        n == Len(e.current_block.doc_ids) + 1
        cur == [doc_ids |-> Append(e.current_block.doc_ids, old_doc_count + (i - 1)),
                term_freqs |-> Append(e.current_block.term_freqs, p.tfs),
                doc_lengths |-> Append(e.current_block.doc_lengths, AsU16(p.doc_len)),
                centroid |-> [idx \in 0..(EMBED_DIM - 1) |->
                    (e.current_block.centroid[idx] * (n - 1) + embedding[idx]) \div n],
                max_score |-> e.current_block.max_score]
        total_docs == old_doc_count + i
        full == Len(cur.doc_ids) >= SEISMIC_BLOCK_SIZE
        done == [cur EXCEPT !.max_score =
                    SeismicBlockMax(cur, dict, AvgDocLen(total_len, total_docs), total_docs)]
    IN [e EXCEPT !.doc_ids = Append(@, p.id),
                 !.total_doc_length = total_len,
                 !.term_dict = dict,
                 !.blocks = IF full THEN Append(@, done) ELSE @,
                 !.current_block = IF full THEN SeismicBlockNew ELSE cur]

RECURSIVE SeismicAddDocs(_, _, _)
SeismicAddDocs(e, i, old_doc_count) ==
    IF i > Len(e.pending) THEN e
    ELSE SeismicAddDocs(SeismicAddDoc(e, i, old_doc_count), i + 1, old_doc_count)

\* SeismicProfile::build_index
SeismicBuildIndex(e) ==
    IF e.pending = <<>> THEN e
    ELSE [SeismicAddDocs(e, 1, e.doc_count) EXCEPT !.doc_count = e.doc_count + Len(e.pending)]

SeismicIndexBatch(e, docs) == [e EXCEPT !.pending = @ \o TokenizeDocs(docs)]

SeismicCommit(e) == [SeismicBuildIndex(e) EXCEPT !.pending = <<>>]

\* The scored (score, doc_id) entries of a block, score > 0 only
SeismicBlockEntries(block, terms, term_dict, avg_doc_len, total_docs) ==
    LET all == [i \in 1..Len(block.doc_ids) |->
                   <<SeismicDocScore(block.term_freqs[i], terms, term_dict,
                                     block.doc_lengths[i], avg_doc_len, total_docs),
                     block.doc_ids[i]>>]
    IN SelectSeq(all, LAMBDA en : en[1] > 0)

\* "Process blocks in order of centroid similarity", with pruning
RECURSIVE SeismicScanBlocks(_, _, _, _, _, _, _)
SeismicScanBlocks(st, order, blocks, terms, term_dict, e, k) ==
    IF order = <<>> THEN st
    ELSE LET block == blocks[Head(order).idx]
             pruned == block.max_score < st.threshold /\ Cardinality(st.heap) >= k
             entries == SeismicBlockEntries(block, terms, term_dict,
                            BuildAvgDocLen(e), e.doc_count)
         IN SeismicScanBlocks(IF pruned THEN st ELSE BuildTopK(st, entries, k),
                              Tail(order), blocks, terms, term_dict, e, k)

\* The heap step of the pass over the current block: filling the heap does
\* not set the threshold.
CurrentInsert(st, entry, k) ==
    IF Cardinality(st.heap) < k THEN [st EXCEPT !.heap = @ \cup {entry}]
    ELSE IF entry[1] > st.threshold
    THEN LET h == HeapPop(st.heap) \cup {entry}
         IN [heap |-> h, threshold |-> HeapMin(h)[1]]
    ELSE st

RECURSIVE CurrentScan(_, _, _)
CurrentScan(st, entries, k) ==
    IF entries = <<>> THEN st
    ELSE CurrentScan(CurrentInsert(st, Head(entries), k), Tail(entries), k)

\* SeismicProfile::search_seismic
SearchSeismic(e, query, limit, offset) ==
    LET terms == TokenizeQuery(query)
        query_embedding == GenerateEmbedding([t \in terms |-> 1])
        block_scores == SortDesc([i \in 1..Len(e.blocks) |->
            [idx |-> i, key |-> CosineSimilarity(query_embedding, e.blocks[i].centroid)]])
        k == limit + offset
        st1 == SeismicScanBlocks(EmptyTopK, block_scores, e.blocks, terms, e.term_dict, e, k)
        st2 == CurrentScan(st1,
                   SeismicBlockEntries(e.current_block, terms, e.term_dict,
                                       BuildAvgDocLen(e), e.doc_count), k)
    IN IF e.doc_count = 0 \/ terms = {} THEN <<>>
       ELSE HitsOf(e.doc_ids, ExtractResults(st2.heap, limit, offset))

SeismicSave(e) ==
    [file |-> "seismic.idx", doc_count |-> e.doc_count,
     total_doc_length |-> e.total_doc_length, term_dict |-> e.term_dict,
     blocks |-> e.blocks, current_block |-> e.current_block, doc_ids |-> e.doc_ids]

SeismicLoad(e, image) ==
    [e EXCEPT !.blocks = image.blocks, !.term_dict = image.term_dict,
              !.doc_ids = image.doc_ids, !.doc_count = image.doc_count,
              !.total_doc_length = image.total_doc_length,
              !.current_block = image.current_block]

SeismicClear(e) ==
    [e EXCEPT !.blocks = <<>>, !.term_dict = EmptyMap, !.doc_ids = <<>>,
              !.doc_count = 0, !.total_doc_length = 0, !.pending = <<>>,
              !.current_block = SeismicBlockNew]

-----------------------------------------------------------------------------
(* profiles/mod.rs and index.rs: the SearchProfile trait object of FtsIndex *)

\* create_profile
CreateProfile(p) ==
    CASE p = "ultra" -> UltraNew
      [] p = "ensemble" -> EnsembleNew
      [] p = "turbo" -> TurboNew
      [] p = "bmw_simd" -> BmwNew
      [] p = "roaring_bm25" -> RoaringNew
      [] OTHER -> SeismicNew

ProfileIndexBatch(p, e, docs) ==
    CASE p = "ultra" -> UltraIndexBatch(e, docs)
      [] p = "ensemble" -> EnsembleIndexBatch(e, docs)
      [] p = "turbo" -> TurboIndexBatch(e, docs)
      [] p = "bmw_simd" -> BmwIndexBatch(e, docs)
      [] p = "roaring_bm25" -> RoaringIndexBatch(e, docs)
      [] OTHER -> SeismicIndexBatch(e, docs)

ProfileCommit(p, e) ==
    CASE p = "ultra" -> UltraCommit(e)
      [] p = "ensemble" -> EnsembleCommit(e)
      [] p = "turbo" -> TurboCommit(e)
      [] p = "bmw_simd" -> BmwCommit(e)
      [] p = "roaring_bm25" -> RoaringCommit(e)
      [] OTHER -> SeismicCommit(e)

\* save: the artifact written to the data directory
ProfileSave(p, e) ==
    CASE p = "ultra" -> UltraSave(e)
      [] p = "ensemble" -> EnsembleSave(e)
      [] p = "turbo" -> TurboSave(e)
      [] p = "bmw_simd" -> BmwSave(e)
      [] p = "roaring_bm25" -> RoaringSave(e)
      [] OTHER -> SeismicSave(e)

\* save: what it leaves in the profile (ensemble rebuilds its FST)
ProfileAfterSave(p, e) == IF p = "ensemble" THEN EnsembleRebuildFst(e) ELSE e

ProfileLoad(p, e, image) ==
    CASE p = "ultra" -> UltraLoad(e, image)
      [] p = "ensemble" -> EnsembleLoad(e, image)
      [] p = "turbo" -> TurboLoad(e, image)
      [] p = "bmw_simd" -> BmwLoad(e, image)
      [] p = "roaring_bm25" -> RoaringLoad(e, image)
      [] OTHER -> SeismicLoad(e, image)

ProfileClear(p, e) ==
    CASE p = "ultra" -> UltraClear(e)
      [] p = "ensemble" -> EnsembleClear(e)
      [] p = "turbo" -> TurboClear(e)
      [] p = "bmw_simd" -> BmwClear(e)
      [] p = "roaring_bm25" -> RoaringClear(e)
      [] OTHER -> SeismicClear(e)

\* SearchProfile::doc_count
DocCount(e) == e.doc_count

\* Number of documents in the pending buffer (ultra has none)
PendingLen(p, e) == IF p = "ultra" THEN 0 ELSE Len(e.pending)

\* SearchProfile::search: the hit lists the call can return
SearchOutcomes(p, e, query, limit, offset, rank) ==
    CASE p = "ultra" -> {UltraSearchFast(e, query, limit, offset, rank)}
      [] p = "ensemble" -> EnsembleSearchOutcomes(e, query, limit, offset)
      [] p = "turbo" -> TurboSearchOutcomes(e, query, limit, offset)
      [] p = "bmw_simd" -> BmwSearchOutcomes(e, query, limit, offset)
      [] p = "roaring_bm25" -> {SearchRoaring(e, query, limit, offset)}
      [] OTHER -> {SearchSeismic(e, query, limit, offset)}

\* SearchProfile::search: what the call leaves in the profile
ProfileAfterSearch(p, e) ==
    CASE p = "ultra" -> ComputeAllBlockMaxes(e)
      [] p = "ensemble" -> EnsembleRebuildFst(e)
      [] OTHER -> e

NoFile == [file |-> "none"]

\* FtsIndex::detect_profile
DetectProfile(image) ==
    CASE image.file = "bmw_simd.idx" -> "bmw_simd"
      [] image.file = "roaring_bm25.idx" -> "roaring_bm25"
      [] image.file = "ensemble.idx" -> "ensemble"
      [] image.file = "seismic.idx" -> "seismic"
      [] image.file = "turbo.idx" -> "turbo"
      [] OTHER -> "ultra"

\* FtsIndex::open: the profile object of the new handle
OpenProfile(image) ==
    LET p == DetectProfile(image)
    IN ProfileLoad(p, CreateProfile(p), image)

-----------------------------------------------------------------------------
(* The caller: one handle on one data directory *)

\* (limit, offset) pairs of the search calls: a page, the next page, both
Pages == {<<n, 0>> : n \in 1..MaxBatch} \cup {<<1, 1>>}

NoResult == [query |-> <<>>, limit |-> 0, offset |-> 0, hits |-> <<>>, total |-> 0]

\* Thread positions of the sequential specification: no call is in progress
\* and the RwLock of FtsIndex.profile is free.
ConcIdle ==
    [writer |-> "idle", reader |-> "idle", writers |-> 0, readers |-> 0,
     docs |-> <<>>, req |-> <<>>, seen |-> UltraNew, observed |-> FALSE,
     overlap |-> FALSE,
     pre |-> UltraNew, post |-> UltraNew]

\* hist: what the caller knows about its own calls.
\*   prev       the call before lastOp, where a later call is judged by it:
\*              kept for commit (after index_batch, commit or clear) and for
\*              index_batch (after clear)
\*   phase      "clear_batch_commit" after the sequence clear, index_batch,
\*              commit
\*   doc_count, pending, batch
\*              doc_count() and the pending count taken just before the
\*              latest index_batch (or clear), and that batch's ids
\*   docs       the documents submitted to this handle since the last clear
\*              or open; the first ncommitted of them were followed by commit
\*   saved      the documents covered by the latest commit to the directory
HistInit ==
    [prev |-> "none", phase |-> "none", doc_count |-> 0, pending |-> 0, batch |-> <<>>,
     docs |-> <<>>, ncommitted |-> 0, saved |-> <<>>]

\* The batches a caller may submit next: up to MaxBatch documents over the
\* given texts, with fresh external ids
BatchesOf(first, texts) ==
    UNION {{[i \in 1..n |-> Document(ExtId(first + i), ts[i])] : ts \in [1..n -> texts]}
              : n \in 0..MaxBatch}

Batches(first) == BatchesOf(first, Texts)

Init ==
    /\ profile \in Profiles
    /\ eng = CreateProfile(profile)
    /\ disk = NoFile
    /\ res = NoResult
    /\ lastOp = "create"
    /\ hist = HistInit
    /\ nsub = 0
    /\ fxOrder \in IF profile = "ultra" THEN Perms(0..(MaxDocs - 1))
                   ELSE {SetToAscSeq(0..(MaxDocs - 1))}
    /\ conc = ConcIdle

\* FtsIndex::index_batch, for a caller drawing at most max documents over
\* the given texts
IndexBatchOf(texts, max) ==
    \E docs \in BatchesOf(nsub, texts) :
        /\ nsub + Len(docs) <= max
        /\ eng' = ProfileIndexBatch(profile, eng, docs)
        /\ nsub' = nsub + Len(docs)
        /\ lastOp' = "index_batch"
        /\ hist' = [hist EXCEPT
                      !.prev = IF lastOp = "clear" THEN "clear" ELSE "none",
                      !.phase = "none",
                      !.doc_count = DocCount(eng),
                      !.pending = PendingLen(profile, eng),
                      !.batch = [i \in 1..Len(docs) |-> docs[i].id],
                      !.docs = @ \o docs]
        /\ res' = NoResult
        /\ UNCHANGED <<profile, disk, fxOrder, conc>>

\* FtsIndex::index_batch
IndexBatch == IndexBatchOf(Texts, MaxDocs)

\* FtsIndex::commit: profile.commit() then profile.save(data_dir)
Commit ==
    LET committed == ProfileCommit(profile, eng)
    IN /\ eng' = ProfileAfterSave(profile, committed)
       /\ disk' = ProfileSave(profile, committed)
       /\ lastOp' = "commit"
       /\ hist' = [hist EXCEPT
                     !.prev = IF lastOp \in {"index_batch", "commit", "clear"}
                              THEN lastOp ELSE "none",
                     !.phase = IF lastOp = "index_batch" /\ hist.prev = "clear"
                               THEN "clear_batch_commit" ELSE "none",
                     !.doc_count = IF lastOp \in {"index_batch", "clear"} THEN @ ELSE 0,
                     !.pending = IF lastOp \in {"index_batch", "clear"} THEN @ ELSE 0,
                     !.batch = IF lastOp = "index_batch" THEN @ ELSE <<>>,
                     !.ncommitted = Len(hist.docs),
                     !.saved = hist.docs]
       /\ res' = NoResult
       /\ UNCHANGED <<profile, nsub, fxOrder, conc>>

\* FtsIndex::search
Search ==
    \E query \in Queries, page \in Pages :
      \E hits \in SearchOutcomes(profile, eng, query, page[1], page[2], fxOrder) :
        /\ res' = [query |-> query, limit |-> page[1], offset |-> page[2],
                   hits |-> hits, total |-> Len(hits)]
        /\ eng' = ProfileAfterSearch(profile, eng)
        /\ UNCHANGED <<profile, disk, lastOp, hist, nsub, fxOrder, conc>>

\* FtsIndex::clear
Clear ==
    /\ eng' = ProfileClear(profile, eng)
    /\ lastOp' = "clear"
    /\ hist' = [hist EXCEPT
                  !.prev = "none", !.phase = "none",
                  !.doc_count = DocCount(eng), !.pending = PendingLen(profile, eng),
                  !.batch = <<>>, !.docs = <<>>, !.ncommitted = 0]
    /\ res' = NoResult
    /\ UNCHANGED <<profile, disk, nsub, fxOrder, conc>>

\* The handle is dropped and FtsIndex::open is called on the directory
Open ==
    /\ profile' = DetectProfile(disk)
    /\ eng' = OpenProfile(disk)
    /\ lastOp' = "open"
    /\ hist' = [hist EXCEPT
                  !.prev = "none", !.phase = "none",
                  !.doc_count = 0, !.pending = 0, !.batch = <<>>,
                  !.docs = hist.saved, !.ncommitted = Len(hist.saved)]
    /\ res' = NoResult
    /\ UNCHANGED <<disk, nsub, fxOrder, conc>>

Next == IndexBatch \/ Commit \/ Search \/ Clear \/ Open

Spec == Init /\ [][Next]_vars

-----------------------------------------------------------------------------
(* Properties *)

\* Internal doc id of a hit: the position of its external id in doc_ids
InternalId(id) == CHOOSE d \in 0..(Len(eng.doc_ids) - 1) : eng.doc_ids[d + 1] = id

HitIds(hits) == {hits[i].id : i \in 1..Len(hits)}

\* The terms of length 2..=32 of a text
TermsOfText(text) == DOMAIN TokenizeInto(EmptyMap, text, MIN_LENGTH, ULTRA_MAX_LEN)

\* Every hit list search(query, limit, offset) can return in the current state
Outcomes(query, limit, offset) == SearchOutcomes(profile, eng, query, limit, offset, fxOrder)

OutcomesNext(query, limit, offset) ==
    SearchOutcomes(profile', eng', query, limit, offset, fxOrder')

\* Number of committed documents that contain a term of the query
Matching(query) ==
    Cardinality({i \in 1..hist.ncommitted :
                    TokenizeQuery(query) \cap TermsOfText(hist.docs[i].text) # {}})

\* C1: every committed document d is returned by search(t, limit, 0) for each
\* of its terms t of length 2..32 when limit covers all documents, including
\* documents committed before the latest commit that contained t.
C1_CommittedTermsFound ==
    \A i \in 1..hist.ncommitted :
        \A t \in TermsOfText(hist.docs[i].text) :
            \A hits \in Outcomes(<<Run(t, 1)>>, MaxDocs, 0) :
                hist.docs[i].id \in HitIds(hits)

\* C2: the hits of a search are in non-increasing score order and, among equal
\* scores, in ascending internal doc id order.
C2_HitsRanked ==
    \A i \in 1..(Len(res.hits) - 1) :
        \/ res.hits[i].score > res.hits[i + 1].score
        \/ /\ res.hits[i].score = res.hits[i + 1].score
           /\ InternalId(res.hits[i].id) < InternalId(res.hits[i + 1].id)

\* C3: on a committed index, for a query with at least 2n matching documents,
\* search(q, n, 0) and search(q, n, n) return n hits each, disjoint, and the
\* first page followed by the second is the hit list of search(q, 2n, 0).
C3_Pagination ==
    lastOp = "commit" =>
        \A q \in Queries, n \in 1..(MaxDocs \div 2) :
            Matching(q) >= 2 * n =>
                \A p1 \in Outcomes(q, n, 0), p2 \in Outcomes(q, n, n),
                   full \in Outcomes(q, 2 * n, 0) :
                    /\ Len(p1) = n /\ Len(p2) = n
                    /\ HitIds(p1) \cap HitIds(p2) = {}
                    /\ p1 \o p2 = full

\* C4: two identical search(q, limit, offset) calls on the committed state with
\* no mutation in between return the same hit ids and scores.
C4_SearchDeterministic ==
    [][(/\ lastOp = "commit"
        /\ res # NoResult
        /\ Search
        /\ res'.query = res.query /\ res'.limit = res.limit /\ res'.offset = res.offset)
       => res'.hits = res.hits]_vars

\* C5: after commit (commit and save), opening the directory into a fresh
\* engine gives the same doc_count and, for every query, the same hit ids and
\* scores as the original engine.
C5_SaveOpenRoundTrip ==
    [][(lastOp = "commit" /\ Open)
       => /\ DocCount(eng') = DocCount(eng)
          /\ \A q \in Queries, page \in Pages :
                \A r1 \in Outcomes(q, page[1], page[2]),
                   r2 \in OutcomesNext(q, page[1], page[2]) : r1 = r2]_vars

\* C6 as stated: doc_count() after index_batch(docs) followed by commit()
\* equals doc_count() before the index_batch plus docs.len().
C6_DocCountAddsBatch ==
    (lastOp = "commit" /\ hist.prev = "index_batch")
        => DocCount(eng) = hist.doc_count + Len(hist.batch)

\* C6: doc_count() after index_batch(docs) followed by commit() equals
\* doc_count() before the index_batch plus docs.len() plus the number of
\* documents that earlier index_batch calls left pending; this covers the
\* empty batch and documents with no tokens.
C6_DocCountAddsBatchAndPending ==
    (lastOp = "commit" /\ hist.prev = "index_batch")
        => DocCount(eng) = hist.doc_count + hist.pending + Len(hist.batch)

\* A commit right after a non-empty batch, with documents pending before it
C6_Witness ==
    /\ lastOp = "commit" /\ hist.prev = "index_batch"
    /\ hist.pending > 0 /\ Len(hist.batch) > 0
    /\ DocCount(eng) = hist.doc_count + hist.pending + Len(hist.batch)

\* C7: index_batch changes neither doc_count() nor any search result; the
\* documents become visible at commit and not earlier.
C7_BatchInvisibleUntilCommit ==
    [][IndexBatch
       => /\ DocCount(eng') = DocCount(eng)
          /\ \A q \in Queries, page \in Pages :
                OutcomesNext(q, page[1], page[2]) = Outcomes(q, page[1], page[2])]_vars

\* C8: a commit with no index_batch since the previous commit leaves the whole
\* profile (doc_count, total_doc_length, doc_lengths, posting lists with df,
\* idf and block maxes, dirty flags), the saved artifact and every search
\* result as the previous commit left them; searches in between change nothing.
\* (A step that starts and ends with lastOp = "commit" is a commit or a search;
\* search results are a function of profile, eng and fxOrder.)
C8_CommitIdempotent ==
    [][(lastOp = "commit" /\ lastOp' = "commit")
       => (eng' = eng /\ disk' = disk /\ profile' = profile /\ fxOrder' = fxOrder)]_vars

\* A second commit directly after a commit of a non-empty index
C8_Witness == lastOp = "commit" /\ hist.prev = "commit" /\ DocCount(eng) > 0

\* C9: after clear() doc_count() is 0, nothing is pending and every search is
\* empty; a commit after clear resurrects nothing; and the next index_batch +
\* commit numbers its documents from internal doc id 0.
C9_ClearResets ==
    /\ lastOp = "clear"
         => /\ DocCount(eng) = 0
            /\ PendingLen(profile, eng) = 0
            /\ \A q \in Queries, page \in Pages : Outcomes(q, page[1], page[2]) = {<<>>}
    /\ (lastOp = "commit" /\ hist.prev = "clear")
         => /\ DocCount(eng) = 0
            /\ \A q \in Queries, page \in Pages : Outcomes(q, page[1], page[2]) = {<<>>}
    /\ (lastOp = "commit" /\ hist.phase = "clear_batch_commit")
         => /\ DocCount(eng) = Len(hist.batch)
            /\ eng.doc_ids = hist.batch
            /\ \A i \in 1..Len(hist.docs) : \A t \in TermsOfText(hist.docs[i].text) :
                  \A hits \in Outcomes(<<Run(t, 1)>>, MaxDocs, 0) :
                      hist.docs[i].id \in HitIds(hits)

\* clear, index_batch of one document, commit, on a handle that had
\* documents before the clear
C9_Witness ==
    /\ lastOp = "commit" /\ hist.phase = "clear_batch_commit"
    /\ Len(hist.batch) = 1 /\ nsub > 1
    /\ eng.doc_ids = hist.batch

-----------------------------------------------------------------------------
(* The concurrent specification: one thread calling index_batch and commit   *)
(* and one thread calling search on the same FtsIndex (ultra profile), each  *)
(* call split at the points where it reads or writes a separate field.       *)

\* index_batch under a shared guard
IndexBatchLockShared == "read"

\* The guard each FtsIndex method takes on self.profile
IndexBatchLock == "write"
CommitLock == "write"
SearchLock == "read"

\* parking_lot::RwLock: write() needs no holder at all, read() no writer
CanAcquire(c, mode) ==
    IF mode = "write" THEN c.writers = 0 /\ c.readers = 0 ELSE c.writers = 0

Acquire(c, mode) ==
    IF mode = "write" THEN [c EXCEPT !.writers = @ + 1] ELSE [c EXCEPT !.readers = @ + 1]

Release(c, mode) ==
    IF mode = "write" THEN [c EXCEPT !.writers = @ - 1] ELSE [c EXCEPT !.readers = @ - 1]

InitConc ==
    /\ profile = "ultra"
    /\ eng = UltraNew
    /\ disk = NoFile
    /\ res = NoResult
    /\ lastOp = "create"
    /\ hist = HistInit
    /\ nsub = 0
    /\ fxOrder \in Perms(0..(MaxDocs - 1))
    /\ conc = ConcIdle

\* A call of the writing thread enters: what a finished search saw is history
WriterStarts(c, state, before, after) ==
    [c EXCEPT !.writer = state, !.pre = before, !.post = after,
              !.observed = IF c.reader \in {"idle", "called"} THEN FALSE ELSE @,
              !.seen = IF c.reader \in {"idle", "called"} THEN UltraNew ELSE @]

\* The writing thread calls index_batch(docs)
CIndexBatchCall ==
    \E docs \in Batches(nsub) :
        /\ conc.writer = "idle"
        /\ nsub + Len(docs) <= MaxDocs
        /\ conc' = [conc EXCEPT !.writer = "batch_called", !.docs = docs,
                                !.overlap = (conc.reader # "idle")]
        /\ nsub' = nsub + Len(docs)
        /\ UNCHANGED <<profile, eng, disk, res, lastOp, hist, fxOrder>>

\* index_batch: self.profile.write() returns the guard
CIndexBatchBegin ==
    /\ conc.writer = "batch_called"
    /\ CanAcquire(conc, IndexBatchLock)
    /\ conc' = WriterStarts(Acquire(conc, IndexBatchLock), "batch_begun",
                            eng, UltraIndexBatch(eng, conc.docs))
    /\ res' = IF conc.reader \in {"idle", "called"} THEN NoResult ELSE res
    /\ UNCHANGED <<profile, eng, disk, lastOp, hist, nsub, fxOrder>>

\* index_batch: docs.is_empty() returns at once, else doc_count.fetch_add
CIndexBatchCount ==
    /\ conc.writer = "batch_begun"
    /\ IF conc.docs = <<>>
       THEN /\ conc' = [Release(conc, IndexBatchLock) EXCEPT !.writer = "idle", !.docs = <<>>]
            /\ eng' = eng
       ELSE /\ conc' = [conc EXCEPT !.writer = "batch_counted"]
            /\ eng' = [eng EXCEPT !.doc_count = @ + Len(conc.docs)]
    /\ lastOp' = "index_batch"
    /\ UNCHANGED <<profile, disk, res, hist, nsub, fxOrder>>

\* index_batch, phase 2: total_doc_length, doc_lengths, doc_id_hashes, doc_ids
CIndexBatchExtend ==
    /\ conc.writer = "batch_counted"
    /\ eng' = [eng EXCEPT !.total_doc_length = conc.post.total_doc_length,
                          !.doc_lengths = conc.post.doc_lengths,
                          !.doc_id_hashes = conc.post.doc_id_hashes,
                          !.doc_ids = conc.post.doc_ids]
    /\ conc' = [conc EXCEPT !.writer = "batch_extended"]
    /\ UNCHANGED <<profile, disk, res, lastOp, hist, nsub, fxOrder>>

\* index_batch, phase 3: the shards, block_maxes_dirty, and the guard drops
CIndexBatchShards ==
    /\ conc.writer = "batch_extended"
    /\ eng' = [eng EXCEPT !.shards = conc.post.shards, !.block_maxes_dirty = TRUE]
    /\ conc' = [Release(conc, IndexBatchLock) EXCEPT !.writer = "idle", !.docs = <<>>]
    /\ UNCHANGED <<profile, disk, res, lastOp, hist, nsub, fxOrder>>

\* The writing thread calls commit()
CCommitCall ==
    /\ conc.writer = "idle"
    /\ conc' = [conc EXCEPT !.writer = "commit_called", !.docs = <<>>,
                            !.overlap = (conc.reader # "idle")]
    /\ UNCHANGED <<profile, eng, disk, res, lastOp, hist, nsub, fxOrder>>

\* commit: self.profile.write() returns the guard
CCommitBegin ==
    /\ conc.writer = "commit_called"
    /\ CanAcquire(conc, CommitLock)
    /\ conc' = WriterStarts(Acquire(conc, CommitLock), "commit_begun",
                            eng, UltraCommit(eng))
    /\ res' = IF conc.reader \in {"idle", "called"} THEN NoResult ELSE res
    /\ UNCHANGED <<profile, eng, disk, lastOp, hist, nsub, fxOrder>>

\* commit: the IDF pass
CCommitIdf ==
    /\ conc.writer = "commit_begun"
    /\ eng' = UltraComputeIdf(eng)
    /\ conc' = [conc EXCEPT !.writer = "commit_idf"]
    /\ UNCHANGED <<profile, disk, res, lastOp, hist, nsub, fxOrder>>

\* commit: compute_all_block_maxes, then save, and the guard drops
CCommitSave ==
    /\ conc.writer = "commit_idf"
    /\ eng' = ComputeAllBlockMaxes(eng)
    /\ disk' = UltraSave(ComputeAllBlockMaxes(eng))
    /\ conc' = [Release(conc, CommitLock) EXCEPT !.writer = "idle"]
    /\ lastOp' = "commit"
    /\ UNCHANGED <<profile, res, hist, nsub, fxOrder>>

\* The reading thread calls search(query, limit, offset)
CSearchCall ==
    \E query \in Queries, page \in Pages :
        /\ conc.reader = "idle"
        /\ conc' = [conc EXCEPT !.reader = "called", !.observed = FALSE,
                                !.overlap = (conc.writer # "idle"),
                                !.seen = UltraNew,
                                !.req = <<query, page[1], page[2]>>]
        /\ res' = NoResult
        /\ UNCHANGED <<profile, eng, disk, lastOp, hist, nsub, fxOrder>>

\* search: self.profile.read() returns the guard
CSearchBegin ==
    /\ conc.reader = "called"
    /\ CanAcquire(conc, SearchLock)
    /\ conc' = [Acquire(conc, SearchLock) EXCEPT !.reader = "begun"]
    /\ UNCHANGED <<profile, eng, disk, res, lastOp, hist, nsub, fxOrder>>

\* search_fast: compute_all_block_maxes()
CSearchMaxes ==
    /\ conc.reader = "begun"
    /\ eng' = ComputeAllBlockMaxes(eng)
    /\ conc' = [conc EXCEPT !.reader = "maxes"]
    /\ UNCHANGED <<profile, disk, res, lastOp, hist, nsub, fxOrder>>

\* search_fast: doc_lengths.read(), doc_ids.read()
CSearchReadDocs ==
    /\ conc.reader = "maxes"
    /\ conc' = [conc EXCEPT !.reader = "docs",
                  !.seen = [UltraNew EXCEPT !.doc_lengths = eng.doc_lengths,
                                            !.doc_ids = eng.doc_ids]]
    /\ UNCHANGED <<profile, eng, disk, res, lastOp, hist, nsub, fxOrder>>

\* search_fast: doc_count.load(), total_doc_length.load()
CSearchReadCount ==
    /\ conc.reader = "docs"
    /\ conc' = [conc EXCEPT !.reader = "count",
                  !.seen = [@ EXCEPT !.doc_count = eng.doc_count,
                                     !.total_doc_length = eng.total_doc_length]]
    /\ UNCHANGED <<profile, eng, disk, res, lastOp, hist, nsub, fxOrder>>

\* search_fast: the shard guards, scoring, top-k; then the guard drops
CSearchScore ==
    /\ conc.reader = "count"
    /\ LET seen == [conc.seen EXCEPT !.shards = eng.shards,
                                     !.block_maxes_dirty = eng.block_maxes_dirty]
       IN /\ conc' = [Release(conc, SearchLock) EXCEPT
                        !.reader = "idle", !.seen = seen, !.observed = TRUE,
                        !.req = <<>>]
          /\ res' = [query |-> conc.req[1], limit |-> conc.req[2], offset |-> conc.req[3],
                     hits |-> UltraSearchFast(seen, conc.req[1], conc.req[2], conc.req[3],
                                              fxOrder),
                     total |-> Len(UltraSearchFast(seen, conc.req[1], conc.req[2],
                                                   conc.req[3], fxOrder))]
    /\ UNCHANGED <<profile, eng, disk, lastOp, hist, nsub, fxOrder>>

NextConc ==
    \/ CIndexBatchCall \/ CIndexBatchBegin \/ CIndexBatchCount
    \/ CIndexBatchExtend \/ CIndexBatchShards
    \/ CCommitCall \/ CCommitBegin \/ CCommitIdf \/ CCommitSave
    \/ CSearchCall \/ CSearchBegin \/ CSearchMaxes \/ CSearchReadDocs \/ CSearchReadCount \/ CSearchScore

SpecConc == InitConc /\ [][NextConc]_vars

\* The thread positions in which the guard is held
WriterInside(c) == c.writer \notin {"idle", "batch_called", "commit_called"}
ReaderInside(c) == c.reader \notin {"idle", "called"}

\* What a search reads of the profile, with the block maxes it would itself
\* recompute
ReaderView(e) ==
    LET n == ComputeAllBlockMaxes(e)
    IN [doc_count |-> n.doc_count, total_doc_length |-> n.total_doc_length,
        doc_lengths |-> n.doc_lengths, doc_ids |-> n.doc_ids, shards |-> n.shards]

\* C10: a search concurrent with index_batch or commit on the same FtsIndex
\* reads doc_count, doc_lengths/doc_ids and the posting lists of one complete
\* state, the one before or the one after that call, and its hits are those
\* of that state; while a search is reading, no index_batch or commit is
\* between its first and its last write.
C10_SearchSeesCompleteState ==
    /\ ReaderInside(conc) => ~WriterInside(conc)
    /\ conc.observed =>
         \E complete \in {conc.pre, conc.post} :
            /\ ReaderView(conc.seen) = ReaderView(complete)
            /\ res.hits = UltraSearchFast(complete, res.query, res.limit, res.offset, fxOrder)

\* A search has returned hits of a non-empty index while an index_batch call
\* with documents, made while the search was reading, waits for the guard
C10_Witness ==
    /\ conc.observed /\ conc.reader = "idle"
    /\ Len(res.hits) > 0
    /\ conc.writer = "batch_called" /\ conc.docs # <<>>
    /\ conc.overlap

-----------------------------------------------------------------------------
(* Concurrent index_batch callers: two threads calling index_batch on the   *)
(* same FtsIndex (ultra profile), each call split at its phases.            *)

Callers == {1, 2}

\* conc of this specification: per caller its position, its batch and the
\* base_doc_id it loaded; order lists the documents in the order their calls
\* obtained the guard; done counts the finished non-empty calls.
BatchesIdle ==
    [pos |-> [c \in Callers |-> "idle"], docs |-> [c \in Callers |-> <<>>],
     base |-> [c \in Callers |-> 0], writers |-> 0, readers |-> 0,
     order |-> <<>>, done |-> 0, overlap |-> FALSE]

InitBatches ==
    /\ profile = "ultra"
    /\ eng = UltraNew
    /\ disk = NoFile
    /\ res = NoResult
    /\ lastOp = "create"
    /\ hist = HistInit
    /\ nsub = 0
    /\ fxOrder = SetToAscSeq(0..(MaxDocs - 1))
    /\ conc = BatchesIdle

\* A thread calls index_batch(docs)
BCall(c) ==
    \E docs \in Batches(nsub) :
        /\ conc.pos[c] = "idle"
        /\ nsub + Len(docs) <= MaxDocs
        /\ conc' = [conc EXCEPT !.pos[c] = "called", !.docs[c] = docs,
                      !.overlap = @ \/ (docs # <<>> /\ \E o \in Callers \ {c} :
                                           conc.pos[o] # "idle" /\ conc.docs[o] # <<>>)]
        /\ nsub' = nsub + Len(docs)
        /\ UNCHANGED <<profile, eng, disk, res, lastOp, hist, fxOrder>>

\* FtsIndex::index_batch obtains the guard; UltraProfile::index_batch returns
\* at once for an empty batch, else loads base_doc_id
BBegin(c) ==
    /\ conc.pos[c] = "called"
    /\ CanAcquire(conc, IndexBatchLock)
    /\ conc' = IF conc.docs[c] = <<>>
               THEN [conc EXCEPT !.pos[c] = "idle"]
               ELSE [Acquire(conc, IndexBatchLock) EXCEPT
                        !.pos[c] = "begun", !.base[c] = eng.doc_count,
                        !.order = @ \o conc.docs[c]]
    /\ UNCHANGED <<profile, eng, disk, res, lastOp, hist, nsub, fxOrder>>

\* doc_count.fetch_add(num_docs)
BCount(c) ==
    /\ conc.pos[c] = "begun"
    /\ eng' = [eng EXCEPT !.doc_count = @ + Len(conc.docs[c])]
    /\ conc' = [conc EXCEPT !.pos[c] = "counted"]
    /\ UNCHANGED <<profile, disk, res, lastOp, hist, nsub, fxOrder>>

\* phase 2: total_doc_length, doc_lengths, doc_id_hashes, doc_ids
BExtend(c) ==
    /\ conc.pos[c] = "counted"
    /\ LET tokenized == UltraTokenized(conc.base[c], conc.docs[c])
           lengths == [i \in 1..Len(tokenized) |-> tokenized[i].doc_len]
       IN eng' = [eng EXCEPT
                    !.total_doc_length = @ + SumSeq(lengths),
                    !.doc_lengths = @ \o lengths,
                    !.doc_id_hashes = @ \o [i \in 1..Len(tokenized) |->
                                               IdHash(tokenized[i].id)],
                    !.doc_ids = @ \o [i \in 1..Len(tokenized) |-> tokenized[i].id]]
    /\ conc' = [conc EXCEPT !.pos[c] = "extended"]
    /\ UNCHANGED <<profile, disk, res, lastOp, hist, nsub, fxOrder>>

\* phase 3: the shard posting lists, block_maxes_dirty; the guard drops
BShards(c) ==
    /\ conc.pos[c] = "extended"
    /\ LET tokenized == UltraTokenized(conc.base[c], conc.docs[c])
       IN eng' = [eng EXCEPT
                    !.shards = [s \in 1..NUM_SHARDS |->
                                   ShardAddDocs(eng.shards[s], s - 1, tokenized)],
                    !.block_maxes_dirty = TRUE]
    /\ conc' = [Release(conc, IndexBatchLock) EXCEPT
                  !.pos[c] = "idle", !.docs[c] = <<>>, !.done = @ + 1]
    /\ lastOp' = "index_batch"
    /\ UNCHANGED <<profile, disk, res, hist, nsub, fxOrder>>

NextBatches ==
    \E c \in Callers : BCall(c) \/ BBegin(c) \/ BCount(c) \/ BExtend(c) \/ BShards(c)

SpecBatches == InitBatches /\ [][NextBatches]_vars

\* The callers that are between loading base_doc_id and dropping the guard
BatchInside == {c \in Callers : conc.pos[c] \in {"begun", "counted", "extended"}}

\* Number of documents whose calls obtained the guard before caller c's call
BatchOrderBase(c) ==
    CHOOSE b \in 0..Len(conc.order) :
        /\ b + Len(conc.docs[c]) <= Len(conc.order)
        /\ \A i \in 1..Len(conc.docs[c]) : conc.order[b + i] = conc.docs[c][i]

\* C11: the documents of one index_batch call receive the contiguous internal
\* doc ids [base, base + n) in call order, base being the number of documents
\* of the calls before it (0 on a new index); calls issued concurrently by
\* separate callers receive disjoint ranges; and doc_ids[d], doc_lengths[d]
\* and the posting entries with doc_id d belong to the document assigned d.
C11_BatchIdsContiguous ==
    /\ \A c \in BatchInside : conc.base[c] = BatchOrderBase(c)
    /\ \A c, o \in BatchInside :
          c # o => \/ conc.base[c] + Len(conc.docs[c]) <= conc.base[o]
                   \/ conc.base[o] + Len(conc.docs[o]) <= conc.base[c]
    /\ BatchInside = {} =>
          /\ eng.doc_count = Len(conc.order)
          /\ eng.doc_ids = [d \in 1..Len(conc.order) |-> conc.order[d].id]
          /\ eng.doc_lengths =
                [d \in 1..Len(conc.order) |->
                    UltraTokenized(d - 1, <<conc.order[d]>>)[1].doc_len]
          /\ \A s \in 1..NUM_SHARDS : \A p \in 1..Len(eng.shards[s].postings) :
                \A i \in 1..Len(eng.shards[s].postings[p].entries) :
                   LET entry == eng.shards[s].postings[p].entries[i]
                   IN /\ entry.doc_id < Len(conc.order)
                      /\ \E t \in 1..Len(TokenizeFastHashOnly(conc.order[entry.doc_id + 1].text)) :
                            LET term == TokenizeFastHashOnly(conc.order[entry.doc_id + 1].text)[t]
                            IN /\ term[2] = entry.freq
                               /\ MapGet(eng.shards[s].term_dict, term[1], -1) = p - 1

\* Two non-empty calls, the second issued while the first was under way, have
\* both returned
C11_Witness ==
    /\ conc.overlap /\ conc.done = 2
    /\ BatchInside = {}
    /\ eng.doc_count = 2 /\ Len(eng.doc_ids) = 2

-----------------------------------------------------------------------------
(* Block-max pruning against an exhaustive scorer *)

\* A block max no threshold exceeds
Unbounded == 1000000000

\* The engine as an exhaustive scorer reads it: every stored block max is
\* Unbounded, so that no block is skipped
ExhaustiveEngine(p, e) ==
    CASE p = "ultra" ->
           LET c == ComputeAllBlockMaxes(e)
           IN [c EXCEPT !.shards = [s \in 1..NUM_SHARDS |->
                  [c.shards[s] EXCEPT !.postings = [i \in 1..Len(c.shards[s].postings) |->
                      [c.shards[s].postings[i] EXCEPT !.block_maxes =
                          [b \in 1..Len(c.shards[s].postings[i].block_maxes) |-> Unbounded]]]]]]
      [] p \in {"ensemble", "turbo"} ->
           [e EXCEPT !.postings = [i \in 1..Len(e.postings) |->
               [e.postings[i] EXCEPT !.blocks = [b \in 1..Len(e.postings[i].blocks) |->
                   [e.postings[i].blocks[b] EXCEPT !.max_score = Unbounded]]]]]
      [] p = "bmw_simd" ->
           [e EXCEPT !.postings = [b \in 1..Len(e.postings) |->
               [e.postings[b] EXCEPT !.max_score = Unbounded]]]
      [] p = "seismic" ->
           [e EXCEPT !.blocks = [b \in 1..Len(e.blocks) |->
               [e.blocks[b] EXCEPT !.max_score = Unbounded]]]
      [] OTHER -> e

\* Documents for the seismic blocks: a block of SEISMIC_BLOCK_SIZE documents
\* is finalized with the statistics of that moment
SeismicTexts == { <<Run("aa", 1)>>, <<Run("bb", 1)>>, <<Run("c", 1)>> }

MaxSeismicDocs == 4

InitSeismic ==
    /\ profile = "seismic"
    /\ eng = SeismicNew
    /\ disk = NoFile
    /\ res = NoResult
    /\ lastOp = "create"
    /\ hist = HistInit
    /\ nsub = 0
    /\ fxOrder = SetToAscSeq(0..(MaxDocs - 1))
    /\ conc = ConcIdle

SeismicIndexBatchCall == IndexBatchOf(SeismicTexts, MaxSeismicDocs)

NextSeismic == SeismicIndexBatchCall \/ Commit \/ Search

SpecSeismic == InitSeismic /\ [][NextSeismic]_vars

\* C12: block-max skipping never changes the result: on a committed index
\* every search returns the hits an exhaustive scorer (one that skips no
\* block) returns, also when the corpus statistics have changed since a
\* block's max score was computed.
C12_PruningExact ==
    lastOp = "commit" =>
        \A query \in Queries, page \in Pages :
            Outcomes(query, page[1], page[2])
                = SearchOutcomes(profile, ExhaustiveEngine(profile, eng), query,
                                 page[1], page[2], fxOrder)

-----------------------------------------------------------------------------
(* Posting lists and their stored statistics *)

\* The committed posting lists of a block-max profile in one shape: df, idf,
\* the number of stored blocks (block maxes) and the blocks with their entries
\* and stored max (-1 where none is stored)
PostingLists(p, e) ==
    LET OfBlocks(blocks, df, idf) ==
            [df |-> df, idf |-> idf, nblocks |-> Len(blocks),
             blocks |-> [b \in 1..Len(blocks) |->
                 [entries |-> [i \in 1..Len(blocks[b].doc_ids) |->
                                  [doc_id |-> blocks[b].doc_ids[i], freq |-> blocks[b].freqs[i]]],
                  max |-> blocks[b].max_score]]]
        OfUltra(posting) ==
            LET chunks == Chunks(posting.entries, ULTRA_BLOCK_SIZE)
            IN [df |-> posting.df, idf |-> posting.idf, nblocks |-> Len(posting.block_maxes),
                blocks |-> [c \in 1..Len(chunks) |->
                    [entries |-> chunks[c],
                     max |-> IF c <= Len(posting.block_maxes)
                             THEN posting.block_maxes[c] ELSE -1]]]
    IN CASE p = "ultra" ->
              UNION {{OfUltra(e.shards[s].postings[i]) : i \in 1..Len(e.shards[s].postings)}
                        : s \in 1..NUM_SHARDS}
         [] p \in {"ensemble", "turbo"} ->
              {OfBlocks(e.postings[i].blocks, e.postings[i].df, e.postings[i].idf) :
                  i \in 1..Len(e.postings)}
         [] p = "bmw_simd" ->
              {OfBlocks(SubSeq(e.postings, e.term_dict[t].posting_offset + 1,
                               e.term_dict[t].posting_offset + e.term_dict[t].num_blocks),
                        e.term_dict[t].df, e.term_dict[t].idf) : t \in DOMAIN e.term_dict}
         [] OTHER -> {}

\* The list's block maxes are those of the engine's current doc_count,
\* average length and document lengths
BlockMaxesCurrent(l, e) ==
    LET avg == AvgDocLen(e.total_doc_length, e.doc_count)
        EntryScore(entry) ==
            Bm25Score(entry.freq, l.df, e.doc_lengths[entry.doc_id + 1], avg, e.doc_count)
        MaxOf(entries) ==
            LET scs == {EntryScore(entries[i]) : i \in 1..Len(entries)} \cup {0}
            IN CHOOSE m \in scs : \A x \in scs : x <= m
    IN \A b \in 1..Len(l.blocks) : l.blocks[b].max = MaxOf(l.blocks[b].entries)

\* The list's idf and block maxes are current
ListCurrent(l, e) ==
    /\ l.idf = IdfFx(e.doc_count, l.df)
    /\ BlockMaxesCurrent(l, e)

\* C13: after every commit, for every posting list (also the lists of terms
\* that do not occur in the batch just committed), idf is the BM25 idf for
\* the current doc_count and the list's df, and every stored block max is
\* the maximum BM25 contribution over the block's entries under the current
\* doc_count and average document length.
C13_StatsCurrentAfterCommit ==
    lastOp = "commit" => \A l \in PostingLists(profile, eng) : ListCurrent(l, eng)

\* BLOCK_SIZE of the profile
BlockSizeOf(p) ==
    CASE p = "ultra" -> ULTRA_BLOCK_SIZE
      [] p = "ensemble" -> ENSEMBLE_BLOCK_SIZE
      [] p = "turbo" -> TURBO_BLOCK_SIZE
      [] p = "bmw_simd" -> BMW_BLOCK_SIZE
      [] OTHER -> 1

\* entries.len() of a list
EntryCount(l) == SumSeq([b \in 1..Len(l.blocks) |-> Len(l.blocks[b].entries)])

\* n.div_ceil(size)
DivCeil(n, size) == (n + size - 1) \div size

\* C14: for every committed posting list, df equals the number of its
\* entries and the number of its blocks (block maxes) equals
\* ceil(entries / B), after any number of commits that append entries to
\* the same term.
C14_ListShape ==
    lastOp = "commit" =>
        \A l \in PostingLists(profile, eng) :
            /\ l.df = EntryCount(l)
            /\ l.nblocks = DivCeil(EntryCount(l), BlockSizeOf(profile))

-----------------------------------------------------------------------------
(* The ultra profile's lazy block maxes *)

\* A search has returned since the last write and scored a non-empty corpus
SearchScored == res # NoResult /\ eng.doc_count > 0

\* The block maxes a search has read are those of the current corpus
MaxesFreshAtSearch ==
    SearchScored =>
        /\ ~eng.block_maxes_dirty
        /\ \A l \in PostingLists("ultra", eng) :
              l.nblocks = Len(l.blocks) /\ BlockMaxesCurrent(l, eng)

-----------------------------------------------------------------------------
(* Documents longer than u16::MAX tokens *)

\* Texts of 1, u16::MAX, u16::MAX + 1 and 80000 tokens, no token occurring
\* more than u16::MAX times
LongTexts ==
    { <<Run("aa", 1)>>,
      <<Run("aa", U16_MAX)>>,
      <<Run("aa", U16_MAX), Run("bb", 1)>>,
      <<Run("aa", 40000), Run("bb", 40000)>> }

\* The profiles that keep doc_lengths and total_doc_length side by side
LengthProfiles == {"ultra", "ensemble", "bmw_simd", "roaring_bm25", "turbo"}

InitLong ==
    /\ profile \in LengthProfiles
    /\ eng = CreateProfile(profile)
    /\ disk = NoFile
    /\ res = NoResult
    /\ lastOp = "create"
    /\ hist = HistInit
    /\ nsub = 0
    /\ fxOrder = SetToAscSeq(0..(MaxDocs - 1))
    /\ conc = ConcIdle

LongIndexBatchCall == IndexBatchOf(LongTexts, MaxDocs)

NextLong == LongIndexBatchCall \/ Commit \/ Search

SpecLong == InitLong /\ [][NextLong]_vars

\* The sum of the per-term frequencies the profile's tokenizer gives the text
TokenCount(p, text) ==
    IF p = "ultra"
    THEN LET terms == TokenizeFastHashOnly(text)
         IN SumSeq([j \in 1..Len(terms) |-> terms[j][2]])
    ELSE DocLenOf(TokenizeWithFreqs(text))

\* C16: in every reachable state total_doc_length equals the sum of
\* doc_lengths[0..doc_count], each doc_lengths[d] being the sum of the
\* document's per-term frequencies saturated at u16::MAX, also for documents
\* of more than u16::MAX tokens (ultra, ensemble, bmw_simd, roaring_bm25,
\* turbo).
C16_TotalIsSumOfLengths ==
    profile \in LengthProfiles =>
        /\ Len(eng.doc_lengths) = eng.doc_count
        /\ eng.total_doc_length = SumSeq(eng.doc_lengths)
        /\ \A d \in 1..Len(eng.doc_lengths) :
              eng.doc_lengths[d] = Min2(TokenCount(profile, hist.docs[d].text), U16_MAX)

-----------------------------------------------------------------------------
(* The tokenizers on their own *)

TokWords == {"aa", "AA", "c", "w32", "w33", "w64", "w65"}

\* Occurrence counts around u16::MAX
TokCounts == {1, U16_MAX, U16_MAX + 1, U16_MAX + 2}

\* Texts of up to two runs of one word each
TokTexts ==
    {<<>>} \cup {<<Run(w, n)>> : w \in TokWords, n \in TokCounts}
           \cup {<<Run(w1, n1), Run(w2, n2)>> :
                    w1 \in {"aa", "w33"}, n1 \in TokCounts, w2 \in TokWords, n2 \in TokCounts}

\* How often the text holds the token w, among the tokens of length
\* minLen..maxLen
Occurrences(text, w, minLen, maxLen) ==
    SumSeq([i \in 1..Len(text) |->
        IF NormalizeToken(text[i].w) = w /\ WordLen(text[i].w) >= minLen
              /\ WordLen(text[i].w) <= maxLen
        THEN text[i].n ELSE 0])

\* Some `+= 1` on a u16 counter overflows while the text is tokenized
CounterOverflows(text, minLen, maxLen) ==
    \E i \in 1..Len(text) :
        Occurrences(text, NormalizeToken(text[i].w), minLen, maxLen) > U16_MAX

\* What a call returns: with overflow checks (debug builds) an overflowing
\* `+= 1` panics, without them (release builds) it wraps
Returned(value, overflows, overflow_checks) ==
    [panicked |-> overflows /\ overflow_checks,
     value |-> IF overflows /\ overflow_checks THEN <<>> ELSE value]

InitTokenizer ==
    /\ profile = "ultra"
    /\ eng = UltraNew
    /\ disk = NoFile
    /\ res \in {[text |-> t, out |-> Returned(<<>>, FALSE, FALSE)] : t \in TokTexts}
    /\ lastOp = "create"
    /\ hist = HistInit
    /\ nsub = 0
    /\ fxOrder = SetToAscSeq(0..(MaxDocs - 1))
    /\ conc = ConcIdle

\* FastTokenizer::default().tokenize_with_freqs(text)
TokenizeWithFreqsCall ==
    \E overflow_checks \in BOOLEAN :
        /\ lastOp = "create"
        /\ res' = [res EXCEPT !.out =
                      Returned(TokenizeWithFreqs(res.text),
                               CounterOverflows(res.text, MIN_LENGTH, MAX_LENGTH),
                               overflow_checks)]
        /\ lastOp' = "tokenize_with_freqs"
        /\ UNCHANGED <<profile, eng, disk, hist, nsub, fxOrder, conc>>

\* UltraProfile::tokenize_fast_hash_only(text)
TokenizeFastHashOnlyCall ==
    \E overflow_checks \in BOOLEAN :
        /\ lastOp = "create"
        /\ res' = [res EXCEPT !.out =
                      Returned(TokenizeFastHashOnly(res.text),
                               CounterOverflows(res.text, MIN_LENGTH, ULTRA_MAX_LEN),
                               overflow_checks)]
        /\ lastOp' = "tokenize_fast_hash_only"
        /\ UNCHANGED <<profile, eng, disk, hist, nsub, fxOrder, conc>>

NextTokenizer == TokenizeWithFreqsCall \/ TokenizeFastHashOnlyCall

SpecTokenizer == InitTokenizer /\ [][NextTokenizer]_vars

\* The frequency the call returned for the token w (0 where it has none)
ReturnedFreq(w) ==
    IF lastOp = "tokenize_with_freqs" THEN MapGet(res.out.value, w, 0)
    ELSE LET hits == {j \in 1..Len(res.out.value) : res.out.value[j][1] = Fnv1a(w)}
         IN IF hits = {} THEN 0 ELSE res.out.value[CHOOSE j \in hits : TRUE][2]

\* C17: a document with more than u16::MAX occurrences of the same token is
\* indexed with frequency exactly u16::MAX for that token: the counter
\* saturates (it neither wraps around nor aborts), in
\* FastTokenizer::tokenize_with_freqs and in tokenize_fast_hash_only.
C17_FrequencySaturates ==
    lastOp \in {"tokenize_with_freqs", "tokenize_fast_hash_only"} =>
        \A i \in 1..Len(res.text) :
            LET w == NormalizeToken(res.text[i].w)
                maxLen == IF lastOp = "tokenize_with_freqs" THEN MAX_LENGTH ELSE ULTRA_MAX_LEN
            IN Occurrences(res.text, w, MIN_LENGTH, maxLen) > U16_MAX
                   => ~res.out.panicked /\ ReturnedFreq(w) = U16_MAX

\* C18: tokens of byte length 1 or greater than 32 are never indexed: with
\* the default tokenizer configuration a run of letters and digits shorter
\* than 2 or longer than 32 bytes produces no entry and does not count toward
\* the document length.
C18_TokenLengthBounds ==
    (lastOp \in {"tokenize_with_freqs", "tokenize_fast_hash_only"} /\ ~res.out.panicked) =>
        \A i \in 1..Len(res.text) :
            (WordLen(res.text[i].w) < 2 \/ WordLen(res.text[i].w) > 32)
                => ReturnedFreq(NormalizeToken(res.text[i].w)) = 0

-----------------------------------------------------------------------------
(* Posting entries by term *)

\* The (doc_id, freq) entries of a run of blocks, in stored order
BlockEntries(blocks) ==
    ConcatAll([b \in 1..Len(blocks) |->
        [i \in 1..Len(blocks[b].doc_ids) |->
            [doc_id |-> blocks[b].doc_ids[i], freq |-> blocks[b].freqs[i]]]])

\* term (ultra: term hash) -> the entries of its posting list, as a lookup
\* through the profile's term dictionary finds them
TermEntries(p, e) ==
    CASE p = "ultra" ->
           LET hashes == UNION {DOMAIN e.shards[s].term_dict : s \in 1..NUM_SHARDS}
               ShardOf(h) == e.shards[ShardForHash(h) + 1]
           IN [h \in hashes |-> ShardOf(h).postings[ShardOf(h).term_dict[h] + 1].entries]
      [] p = "ensemble" ->
           [t \in DOMAIN e.term_offsets |-> BlockEntries(e.postings[e.term_offsets[t] + 1].blocks)]
      [] p = "turbo" ->
           [t \in DOMAIN e.term_dict |-> BlockEntries(e.postings[e.term_dict[t] + 1].blocks)]
      [] p = "bmw_simd" ->
           [t \in DOMAIN e.term_dict |->
               BlockEntries(SubSeq(e.postings, e.term_dict[t].posting_offset + 1,
                                   e.term_dict[t].posting_offset + e.term_dict[t].num_blocks))]
      [] p = "roaring_bm25" -> e.term_freqs
      [] OTHER -> EmptyMap

\* Non-decreasing doc ids with at most one entry per document
EntriesOrdered(entries) ==
    \A i, j \in 1..Len(entries) : i < j => entries[i].doc_id < entries[j].doc_id

IsPrefix(a, b) == Len(a) <= Len(b) /\ SubSeq(b, 1, Len(a)) = a

\* index_batch and commit only append to the posting lists
EntriesAppendOnly ==
    lastOp' \in {"index_batch", "commit"} =>
        \A t \in DOMAIN TermEntries(profile, eng) :
            /\ t \in DOMAIN TermEntries(profile, eng')
            /\ IsPrefix(TermEntries(profile, eng)[t], TermEntries(profile, eng')[t])

\* C19: in every reachable state the entries of each posting list are in
\* non-decreasing doc_id order with at most one entry per (document, term),
\* and index_batch and commit only ever append entries, never reorder or
\* remove them, across any number of batches.
C19_EntriesOrderedAppendOnly ==
    /\ [](\A t \in DOMAIN TermEntries(profile, eng) :
              EntriesOrdered(TermEntries(profile, eng)[t]))
    /\ [][EntriesAppendOnly]_vars

-----------------------------------------------------------------------------
(* A commit whose save step fails *)

\* What a save that failed after File::create leaves in the data directory
TornFile == [file |-> "torn"]

\* FtsIndex::commit returning Err: profile.commit() cannot fail in these
\* profiles, so the error is the `?` of profile.save(data_dir). The save
\* fails at File::create (the directory keeps what it had) or at a later
\* write (the file is left torn), in both cases after what save does to the
\* profile (ensemble's rebuild_fst precedes File::create).
CommitFails ==
    \E torn \in BOOLEAN :
        LET committed == ProfileCommit(profile, eng)
        IN /\ eng' = ProfileAfterSave(profile, committed)
           /\ disk' = IF torn THEN TornFile ELSE disk
           /\ lastOp' = "commit_failed"
           /\ hist' = [hist EXCEPT !.prev = "none", !.phase = "none",
                                   !.doc_count = DocCount(eng),
                                   !.pending = PendingLen(profile, eng)]
           /\ res' = NoResult
           /\ UNCHANGED <<profile, nsub, fxOrder, conc>>

NextFail == IndexBatch \/ Commit \/ CommitFails \/ Search

SpecFail == Init /\ [][NextFail]_vars

\* C20: if commit fails (FtsIndex::commit returns an IO error from its save
\* step), the engine remains in the uncommitted state: the batch is not
\* visible to doc_count or search, it is still pending so that a later
\* commit publishes it, and the block-max dirty flag is still set.
C20_FailedCommitChangesNothing ==
    [][CommitFails
       => /\ DocCount(eng') = DocCount(eng)
          /\ PendingLen(profile, eng') = PendingLen(profile, eng)
          /\ \A q \in Queries, page \in Pages :
                OutcomesNext(q, page[1], page[2]) = Outcomes(q, page[1], page[2])
          /\ (profile = "ultra" /\ eng.block_maxes_dirty) => eng'.block_maxes_dirty]_vars

-----------------------------------------------------------------------------
(* profiles/tantivy_profile.rs: the profile over the tantivy library, and   *)
(* ffi.rs: fts_index_batch feeding it in chunks                             *)
(*                                                                         *)
(* The library is outside the repository; the model keeps what the profile *)
(* relies on: the writer holds the documents add_document accepted since   *)
(* the last successful commit, commit publishes them as one segment, the   *)
(* reader sees the segments of the last reload, a doc address is a         *)
(* position inside a segment, and add_document and commit can fail.        *)

\* Scaled sizes of this specification (source values: CHUNK_SIZE 1000 in
\* fts_index_batch, commit_interval 50000 in TantivyConfig::default)
CHUNK_SIZE == 1
COMMIT_INTERVAL == 3
MaxTantivyDocs == 3

\* TantivyProfile::with_config: no index yet
TantivyNew ==
    [index |-> FALSE, writer |-> <<>>, segments |-> <<>>, searcher |-> <<>>,
     pending_count |-> 0, doc_count |-> 0]

\* searcher.num_docs()
NumDocs(segments) == SumSeq([i \in 1..Len(segments) |-> Len(segments[i])])

\* TantivyProfile::init_index on the data directory
TantivyInitIndex(e, segments) ==
    [e EXCEPT !.index = TRUE, !.writer = <<>>, !.segments = segments,
              !.searcher = segments, !.doc_count = NumDocs(segments)]

\* writer.commit() that succeeds, and the reader reload that follows it
WriterCommit(e) ==
    LET segments == IF e.writer = <<>> THEN e.segments ELSE Append(e.segments, e.writer)
    IN [e EXCEPT !.writer = <<>>, !.segments = segments, !.searcher = segments]

\* TantivyProfile::index_batch: add_document fails at document fail_at (0:
\* never), the automatic commit succeeds or not. Returns Ok(count) or Err
\* and the profile the call leaves.
TantivyIndexBatch(e, docs, fail_at, commit_ok) ==
    LET added == IF fail_at = 0 THEN docs ELSE SubSeq(docs, 1, fail_at - 1)
        written == [e EXCEPT !.writer = @ \o added]
        pending == e.pending_count + Len(docs)
        counted == [written EXCEPT !.pending_count = pending]
    IN IF ~e.index THEN [ok |-> FALSE, count |-> 0, eng |-> e]
       ELSE IF fail_at # 0 THEN [ok |-> FALSE, count |-> 0, eng |-> written]
       ELSE IF pending < COMMIT_INTERVAL THEN [ok |-> TRUE, count |-> Len(docs), eng |-> counted]
       ELSE IF ~commit_ok THEN [ok |-> FALSE, count |-> 0, eng |-> counted]
       ELSE [ok |-> TRUE, count |-> Len(docs),
             eng |-> [WriterCommit(counted) EXCEPT
                         !.doc_count = e.doc_count + pending, !.pending_count = 0]]

\* TantivyProfile::commit that succeeds
TantivyCommit(e) ==
    [WriterCommit(e) EXCEPT !.doc_count = e.doc_count + e.pending_count,
                            !.pending_count = 0]

\* TantivyProfile::save: writer.commit() again, then the tantivy.idx metadata
\* beside the tantivy_index directory
TantivySave(e) ==
    [file |-> "tantivy.idx", doc_count |-> e.doc_count, segments |-> WriterCommit(e).segments]

\* The terms of a text under the library's default analyzer: alphanumeric
\* runs shorter than 40 bytes, lowercased
TantivyTerms(text) ==
    {NormalizeToken(text[i].w) : i \in {j \in 1..Len(text) : WordLen(text[j].w) < 40}}

\* The addresses (segment, doc_id) of the documents the searcher matches:
\* those holding some term of the query
TantivyMatches(searcher, query) ==
    UNION {{<<s, d>> : d \in {x \in 0..(Len(searcher[s]) - 1) :
                TantivyTerms(searcher[s][x + 1].text) \cap TantivyTerms(query) # {}}}
              : s \in 1..Len(searcher)}

\* TantivyProfile::search: the SearchResults the call can return. TopDocs
\* ranks by the library's score; the model leaves the order of the matches
\* open. The id of a hit is doc_<doc_address.doc_id>.
TantivySearch(e, query, limit, offset) ==
    {[query |-> query, limit |-> limit, offset |-> offset,
      hits |-> [i \in 1..Len(SkipTake(order, offset, limit)) |->
                   [id |-> -1 - SkipTake(order, offset, limit)[i][2],
                    address |-> SkipTake(order, offset, limit)[i]]],
      total |-> NumDocs(e.searcher)]
        : order \in Perms(TantivyMatches(e.searcher, query))}

\* fts_index_batch over the parsed documents: index.index_batch per chunk of
\* CHUNK_SIZE documents, -3 at the first chunk that fails. The chunk numbered
\* fail_chunk is the one whose index_batch runs with (fail_at, commit_ok).
RECURSIVE FeedChunks(_, _, _, _, _, _, _)
FeedChunks(e, chunks, k, fail_chunk, fail_at, commit_ok, indexed) ==
    IF k > Len(chunks) THEN [code |-> indexed, eng |-> e]
    ELSE LET r == IF k = fail_chunk
                  THEN TantivyIndexBatch(e, chunks[k], Min2(fail_at, Len(chunks[k])), commit_ok)
                  ELSE TantivyIndexBatch(e, chunks[k], 0, TRUE)
         IN IF r.ok
            THEN FeedChunks(r.eng, chunks, k + 1, fail_chunk, fail_at, commit_ok,
                            indexed + r.count)
            ELSE [code |-> -3, eng |-> r.eng]

\* FtsIndex::create(dir, "tantivy")
InitTantivy ==
    /\ profile = "tantivy"
    /\ eng = TantivyInitIndex(TantivyNew, <<>>)
    /\ disk = NoFile
    /\ res = NoResult
    /\ lastOp = "create"
    /\ hist = HistInit
    /\ nsub = 0
    /\ fxOrder = SetToAscSeq(0..(MaxDocs - 1))
    /\ conc = ConcIdle

\* FtsIndex::index_batch on the tantivy handle
TantivyIndexBatchCall ==
    \E docs \in Batches(nsub), fail_at \in 0..MaxBatch, commit_ok \in BOOLEAN :
        LET r == TantivyIndexBatch(eng, docs, fail_at, commit_ok)
        IN /\ nsub + Len(docs) <= MaxTantivyDocs
           /\ fail_at <= Len(docs)
           /\ eng' = r.eng
           /\ nsub' = nsub + Len(docs)
           /\ lastOp' = IF r.ok THEN "index_batch" ELSE "index_batch_failed"
           /\ hist' = [hist EXCEPT !.batch = [i \in 1..Len(docs) |-> docs[i].id],
                                   !.docs = @ \o docs]
           /\ res' = NoResult
           /\ UNCHANGED <<profile, disk, fxOrder, conc>>

\* fts_index_batch(idx, docs_json, ..) with a valid handle and JSON text
FtsIndexBatch ==
    \E docs \in Batches(nsub), fail_chunk \in 0..MaxBatch, fail_at \in 0..CHUNK_SIZE,
       commit_ok \in BOOLEAN :
        LET r == FeedChunks(eng, Chunks(docs, CHUNK_SIZE), 1, fail_chunk, fail_at,
                            commit_ok, 0)
        IN /\ nsub + Len(docs) <= MaxTantivyDocs
           /\ eng' = r.eng
           /\ nsub' = nsub + Len(docs)
           /\ lastOp' = IF r.code >= 0 THEN "fts_index_batch" ELSE "fts_index_batch_failed"
           /\ hist' = [hist EXCEPT !.batch = [i \in 1..Len(docs) |-> docs[i].id],
                                   !.docs = @ \o docs]
           /\ res' = [call |-> "fts_index_batch", code |-> r.code]
           /\ UNCHANGED <<profile, disk, fxOrder, conc>>

\* FtsIndex::commit on the tantivy handle: commit, then save; writer.commit()
\* can fail, and then nothing is written
TantivyCommitCall ==
    \E ok \in BOOLEAN :
        /\ eng' = IF ok THEN TantivyCommit(eng) ELSE eng
        /\ disk' = IF ok THEN TantivySave(TantivyCommit(eng)) ELSE disk
        /\ lastOp' = IF ok THEN "commit" ELSE "commit_failed"
        /\ hist' = [hist EXCEPT !.ncommitted = IF ok THEN Len(hist.docs) ELSE @]
        /\ res' = NoResult
        /\ UNCHANGED <<profile, nsub, fxOrder, conc>>

\* FtsIndex::search on the tantivy handle
TantivySearchCall ==
    \E query \in Queries, page \in Pages :
      \E r \in TantivySearch(eng, query, page[1], page[2]) :
        /\ res' = r
        /\ lastOp' = "search"
        /\ UNCHANGED <<profile, eng, disk, hist, nsub, fxOrder, conc>>

NextTantivy == TantivyIndexBatchCall \/ FtsIndexBatch \/ TantivyCommitCall \/ TantivySearchCall

SpecTantivy == InitTantivy /\ [][NextTantivy]_vars

\* C21: a failed index_batch, in-process or through fts_index_batch, leaves
\* the engine exactly in its pre-call state: no document of the failed call
\* is in the writer, counted as pending or indexed.
C21_FailedBatchChangesNothing ==
    [][lastOp' \in {"index_batch_failed", "fts_index_batch_failed"} => eng' = eng]_vars

-----------------------------------------------------------------------------
(* load on a damaged index file. The file is read front to back with       *)
(* read_exact: the magic, the header of counts, the terms and postings,    *)
(* then one id record per document.                                        *)

\* Number of parts load reads from an intact file
FileParts(image) == 3 + image.doc_count

\* The file after its first parts bytes-groups only are left (the next part
\* cut anywhere), or after its magic was overwritten
DamagedFile(image, magic_ok, parts) ==
    [file |-> image.file, magic_ok |-> magic_ok, parts |-> parts, content |-> image]

IsDamaged(image) == "parts" \in DOMAIN image

\* SearchProfile::load of the native profiles on the file the directory
\* holds: Ok or the IndexError kind. read_exact(..)? converts the
\* UnexpectedEof of a short file through From<io::Error>.
LoadResult(image) ==
    IF ~IsDamaged(image) THEN "Ok"
    ELSE IF image.parts < 1 THEN "Io"
    ELSE IF ~image.magic_ok THEN "Corrupted"
    ELSE IF image.parts < FileParts(image.content) THEN "Io"
    ELSE "Ok"

\* The file is cut short or its magic overwritten behind the engine's back
Damage ==
    \E magic_ok \in BOOLEAN, parts \in 0..(2 + MaxDocs) :
        /\ disk # NoFile
        /\ ~IsDamaged(disk)
        /\ parts <= FileParts(disk)
        /\ ~magic_ok \/ parts < FileParts(disk)
        /\ magic_ok \/ parts >= 1
        /\ disk' = DamagedFile(disk, magic_ok, parts)
        /\ lastOp' = "damage"
        /\ res' = NoResult
        /\ UNCHANGED <<profile, eng, hist, nsub, fxOrder, conc>>

\* FtsIndex::open on the directory while the old handle is still held: the
\* new handle replaces it when open returns Ok
OpenCall ==
    LET result == LoadResult(disk)
        image == IF IsDamaged(disk) THEN disk.content ELSE disk
    IN /\ profile' = IF result = "Ok" THEN DetectProfile(disk) ELSE profile
       /\ eng' = IF result = "Ok" THEN OpenProfile(image) ELSE eng
       /\ lastOp' = IF result = "Ok" THEN "open" ELSE "open_failed"
       /\ hist' = IF result = "Ok"
                  THEN [hist EXCEPT
                          !.prev = "none", !.phase = "none",
                          !.doc_count = 0, !.pending = 0, !.batch = <<>>,
                          !.docs = hist.saved, !.ncommitted = Len(hist.saved)]
                  ELSE hist
       /\ res' = [call |-> "open", result |-> result]
       /\ UNCHANGED <<disk, nsub, fxOrder, conc>>

NextLoad == IndexBatch \/ Commit \/ Damage \/ OpenCall

SpecLoad == Init /\ [][NextLoad]_vars

\* C22: open on an index file with a mismatched magic or cut in the middle
\* of a record fails with the Corrupted error kind, in every native profile.
C22_LoadStrict ==
    (lastOp \in {"open", "open_failed"} /\ IsDamaged(disk)) => res.result = "Corrupted"

-----------------------------------------------------------------------------
(* profiles/ultra.rs: the inner locks of UltraProfile. Each operation is   *)
(* the sequence of guards it takes and drops, in program order; the guards *)
(* of a par_iter over the shards are taken by its workers in some order    *)
(* while the caller keeps the guards it holds.                             *)

Guard(do, lock, shard) == [do |-> do, lock |-> lock, shard |-> shard]

\* A guard that lives to the end of its block
Acq(lock) == <<Guard("acquire", lock, 0)>>
Rel(lock) == <<Guard("release", lock, 0)>>

\* A temporary guard: *self.x.read() or self.x.write().clear()
Temp(lock) == Acq(lock) \o Rel(lock)

\* for shard_lock in shards { let shard = shard_lock.write(); .. } in the
\* given order of the shards
RECURSIVE ShardsEach(_)
ShardsEach(order) ==
    IF order = <<>> THEN <<>>
    ELSE <<Guard("acquire", "shard", Head(order)), Guard("release", "shard", Head(order))>>
         \o ShardsEach(Tail(order))

\* self.shards.iter().map(|s| s.read()).collect(): every shard guard, kept
ShardsAll(do) == [s \in 1..NUM_SHARDS |-> Guard(do, "shard", s)]

ShardOrders == Perms(1..NUM_SHARDS)

\* compute_all_block_maxes
ComputeAllBlockMaxesLocks(e, order) ==
    IF ~e.block_maxes_dirty \/ e.doc_count = 0 THEN Temp("block_maxes_dirty")
    ELSE Temp("block_maxes_dirty") \o Acq("doc_lengths") \o ShardsEach(order)
         \o Temp("block_maxes_dirty") \o Rel("doc_lengths")

\* search_fast
SearchFastLocks(e, query, order) ==
    ComputeAllBlockMaxesLocks(e, order) \o Acq("doc_lengths") \o Acq("doc_ids")
    \o (IF e.doc_count = 0 \/ TokenizeFast(query) = <<>> THEN <<>>
        ELSE ShardsAll("acquire") \o ShardsAll("release"))
    \o Rel("doc_ids") \o Rel("doc_lengths")

\* index_batch
IndexBatchLocks(docs, order) ==
    IF docs = <<>> THEN <<>>
    ELSE Acq("doc_lengths") \o Acq("doc_id_hashes") \o Acq("doc_ids")
         \o Rel("doc_ids") \o Rel("doc_id_hashes") \o Rel("doc_lengths")
         \o ShardsEach(order) \o Temp("block_maxes_dirty")

\* save
SaveLocks ==
    Acq("doc_lengths") \o Acq("doc_ids") \o ShardsEach(SetToAscSeq(1..NUM_SHARDS))
    \o Rel("doc_ids") \o Rel("doc_lengths")

\* commit, then save as FtsIndex::commit calls them
CommitLocks(e, order) ==
    (IF e.doc_count > 0 THEN ShardsEach(order) ELSE <<>>)
    \o ComputeAllBlockMaxesLocks(UltraComputeIdf(e), order) \o SaveLocks

\* memory_stats
MemoryStatsLocks ==
    Acq("doc_lengths") \o Acq("doc_ids") \o ShardsEach(SetToAscSeq(1..NUM_SHARDS))
    \o Rel("doc_ids") \o Rel("doc_lengths")

\* clear
ClearLocks ==
    ShardsEach(SetToAscSeq(1..NUM_SHARDS)) \o Temp("doc_lengths") \o Temp("doc_ids")
    \o Temp("block_maxes_dirty")

LocksIdle == [op |-> "idle", todo |-> <<>>, held |-> <<>>, docs |-> <<>>, req |-> <<>>]

InitLocks ==
    /\ profile = "ultra"
    /\ eng = UltraNew
    /\ disk = NoFile
    /\ res = NoResult
    /\ lastOp = "create"
    /\ hist = HistInit
    /\ nsub = 0
    /\ fxOrder = SetToAscSeq(0..(MaxDocs - 1))
    /\ conc = LocksIdle

\* An operation starts: the guards it will take are fixed by the state
LStart(op, todo, docs, req) ==
    /\ conc.op = "idle"
    /\ conc' = [op |-> op, todo |-> todo, held |-> <<>>, docs |-> docs, req |-> req]
    /\ UNCHANGED <<profile, eng, disk, res, lastOp, hist, nsub, fxOrder>>

LIndexBatchCall ==
    \E docs \in Batches(nsub), order \in ShardOrders :
        /\ nsub + Len(docs) <= MaxDocs
        /\ LStart("index_batch", IndexBatchLocks(docs, order), docs, <<>>)

LCommitCall == \E order \in ShardOrders : LStart("commit", CommitLocks(eng, order), <<>>, <<>>)

LSearchCall ==
    \E query \in Queries, page \in Pages, order \in ShardOrders :
        LStart("search", SearchFastLocks(eng, query, order), <<>>, <<query, page[1], page[2]>>)

LMemoryStatsCall == LStart("memory_stats", MemoryStatsLocks, <<>>, <<>>)

LClearCall == LStart("clear", ClearLocks, <<>>, <<>>)

\* The next guard of the running operation is taken
LAcquire ==
    /\ conc.todo # <<>>
    /\ Head(conc.todo).do = "acquire"
    /\ conc' = [conc EXCEPT !.todo = Tail(@),
                            !.held = Append(@, [lock |-> Head(conc.todo).lock,
                                                shard |-> Head(conc.todo).shard])]
    /\ UNCHANGED <<profile, eng, disk, res, lastOp, hist, nsub, fxOrder>>

\* A guard of the running operation is dropped
LRelease ==
    /\ conc.todo # <<>>
    /\ Head(conc.todo).do = "release"
    /\ conc' = [conc EXCEPT !.todo = Tail(@),
                            !.held = SelectSeq(@, LAMBDA g :
                                         ~(g.lock = Head(conc.todo).lock
                                           /\ g.shard = Head(conc.todo).shard))]
    /\ UNCHANGED <<profile, eng, disk, res, lastOp, hist, nsub, fxOrder>>

\* The running operation returns with its effect on the engine
LReturn ==
    /\ conc.op # "idle"
    /\ conc.todo = <<>>
    /\ conc' = LocksIdle
    /\ lastOp' = conc.op
    /\ eng' = CASE conc.op = "index_batch" -> UltraIndexBatch(eng, conc.docs)
                [] conc.op = "commit" -> UltraCommit(eng)
                [] conc.op = "search" -> ComputeAllBlockMaxes(eng)
                [] conc.op = "clear" -> UltraClear(eng)
                [] OTHER -> eng
    /\ disk' = IF conc.op = "commit" THEN UltraSave(UltraCommit(eng)) ELSE disk
    /\ nsub' = nsub + Len(conc.docs)
    /\ res' = IF conc.op = "search"
              THEN [query |-> conc.req[1], limit |-> conc.req[2], offset |-> conc.req[3],
                    hits |-> UltraSearchFast(eng, conc.req[1], conc.req[2], conc.req[3], fxOrder),
                    total |-> Len(UltraSearchFast(eng, conc.req[1], conc.req[2], conc.req[3],
                                                  fxOrder))]
              ELSE NoResult
    /\ UNCHANGED <<profile, hist, fxOrder>>

NextLocks ==
    \/ LIndexBatchCall \/ LCommitCall \/ LSearchCall \/ LMemoryStatsCall \/ LClearCall
    \/ LAcquire \/ LRelease \/ LReturn

SpecLocks == InitLocks /\ [][NextLocks]_vars

DocTableLocks == {"doc_lengths", "doc_id_hashes", "doc_ids"}

\* C23: no operation of the ultra engine takes a shard lock while it holds a
\* document-table lock (doc_lengths, doc_id_hashes, doc_ids): among the
\* guards an operation holds, every shard guard was taken before every
\* document-table guard.
C23_ShardBeforeDocTable ==
    \A i, j \in 1..Len(conc.held) :
        (conc.held[i].lock \in DocTableLocks /\ conc.held[j].lock = "shard") => j < i

-----------------------------------------------------------------------------
(* Hit ids of the tantivy profile *)

\* The document the searcher holds at a doc address (segment, doc_id)
DocAt(address) == eng.searcher[address[1]][address[2] + 1]

\* C24: the id of every hit is the external id supplied for that document
\* at index_batch whenever the engine stores external ids (the tantivy schema
\* stores the id field), and doc_<internal_id> only when it stores none.
C24_HitIdIsExternalId ==
    lastOp = "search" =>
        \A i \in 1..Len(res.hits) : res.hits[i].id = DocAt(res.hits[i].address).id

-----------------------------------------------------------------------------
(* SearchResult.total *)

\* The numbers of candidates the search of a query can score: the lengths
\* of its hit lists when the heap is large enough to keep every candidate
CandidateCounts(query) == {Len(hits) : hits \in Outcomes(query, Unbounded, 0)}

\* C25: total is the number of candidates scored into the top-k heap (every
\* candidate, or the limit + offset of them the heap keeps), not the number
\* of hits left after offset and limit are applied.
C25_TotalIsCandidateCount ==
    res.limit > 0 =>
        \E c \in CandidateCounts(res.query) :
            res.total \in {c, Min2(c, res.limit + res.offset)}

-----------------------------------------------------------------------------
(* index.rs: create and open over a data directory that may be missing,    *)
(* empty, or hold the artifacts earlier handles left in it                 *)

MaxCreates == 2

\* Profile names a caller may pass to create
ProfileNames ==
    {"bmw_simd", "roaring_bm25", "ensemble", "seismic", "tantivy", "turbo", "ultra",
     "default", "roaring", "bmwsimd", "roaringbm25", "Ultra", "lucene", ""}

\* str::to_lowercase
ToLowercase(s) == IF s = "Ultra" THEN "ultra" ELSE s

\* ProfileType::from_str: the profile, or "None"
FromStr(s) ==
    LET l == ToLowercase(s)
    IN CASE l \in {"bmw_simd", "bmwsimd"} -> "bmw_simd"
         [] l \in {"roaring_bm25", "roaringbm25", "roaring"} -> "roaring_bm25"
         [] l \in {"ensemble", "default"} -> "ensemble"
         [] l = "seismic" -> "seismic"
         [] l = "tantivy" -> "tantivy"
         [] l = "turbo" -> "turbo"
         [] l = "ultra" -> "ultra"
         [] OTHER -> "None"

\* The data directory: whether it exists, and its entries by name
MissingDir == [exists |-> FALSE, files |-> EmptyMap]
EmptyDir == [exists |-> TRUE, files |-> EmptyMap]

\* FtsIndex::detect_profile over the entries of the directory
DetectProfileDir(dir) ==
    LET has(name) == name \in DOMAIN dir.files
    IN CASE has("bmw_simd.idx") -> "bmw_simd"
         [] has("roaring_bm25.idx") -> "roaring_bm25"
         [] has("ensemble.idx") -> "ensemble"
         [] has("seismic.idx") -> "seismic"
         [] has("tantivy_index") \/ has("tantivy.idx") -> "tantivy"
         [] has("turbo.idx") -> "turbo"
         [] OTHER -> "ultra"

\* The segments of the tantivy index of the directory
DirSegments(dir) == MapGet(dir.files, "tantivy_index", [segments |-> <<>>]).segments

\* profile.init(dir) of a new profile: only tantivy touches the directory
InitProfile(p, dir) ==
    IF p = "tantivy" THEN TantivyInitIndex(TantivyNew, DirSegments(dir))
    ELSE CreateProfile(p)

DirAfterInit(p, dir) ==
    IF p = "tantivy"
    THEN [dir EXCEPT !.files = MapPut(@, "tantivy_index", [segments |-> DirSegments(dir)])]
    ELSE dir

\* profile.load(dir) of a new profile of the detected type
LoadProfile(p, dir) ==
    IF p = "tantivy"
    THEN [TantivyInitIndex(TantivyNew, DirSegments(dir)) EXCEPT
             !.doc_count = IF "tantivy.idx" \in DOMAIN dir.files
                           THEN dir.files["tantivy.idx"].doc_count ELSE @]
    ELSE ProfileLoad(p, CreateProfile(p), MapGet(dir.files, p \o ".idx", NoFile))

HandleIndexBatch(p, e, docs) ==
    IF p = "tantivy" THEN TantivyIndexBatch(e, docs, 0, TRUE).eng
    ELSE ProfileIndexBatch(p, e, docs)

HandleCommit(p, e) ==
    IF p = "tantivy" THEN TantivyCommit(e) ELSE ProfileAfterSave(p, ProfileCommit(p, e))

\* profile.save(dir): the entries the handle writes
DirAfterSave(p, e, dir) ==
    IF p = "tantivy"
    THEN [dir EXCEPT !.files = MapPut(MapPut(@, "tantivy_index", [segments |-> e.segments]),
                                      "tantivy.idx", [doc_count |-> e.doc_count])]
    ELSE [dir EXCEPT !.files = MapPut(@, p \o ".idx", ProfileSave(p, ProfileCommit(p, e)))]

NoHandle == [doc_count |-> 0]

\* hist: the calls made on the directory
\*   creates          number of create calls
\*   committed_by     the profile of the handle that committed last
\*   committed_count  doc_count() of that handle after the commit
DirHistInit == [creates |-> 0, committed_by |-> "none", committed_count |-> 0]

InitDir ==
    /\ profile = "none"
    /\ eng = NoHandle
    /\ disk \in {MissingDir, EmptyDir}
    /\ res = [call |-> "none", result |-> "Ok"]
    /\ lastOp = "none"
    /\ hist = DirHistInit
    /\ nsub = 0
    /\ fxOrder = SetToAscSeq(0..(MaxDocs - 1))
    /\ conc = ConcIdle

\* FtsIndex::create(dir, name); the handle held so far is dropped when a new
\* one is returned
CreateCall ==
    \E name \in ProfileNames :
        LET p == FromStr(name)
            ok == p # "None"
        IN /\ hist.creates < MaxCreates
           /\ disk' = IF ok THEN DirAfterInit(p, [disk EXCEPT !.exists = TRUE])
                      ELSE [disk EXCEPT !.exists = TRUE]
           /\ profile' = IF ok THEN p ELSE profile
           /\ eng' = IF ok THEN InitProfile(p, disk) ELSE eng
           /\ res' = [call |-> "create", name |-> name,
                      result |-> IF ok THEN "Ok" ELSE "UnknownProfile"]
           /\ lastOp' = IF ok THEN "create" ELSE "create_failed"
           /\ hist' = [hist EXCEPT !.creates = @ + 1]
           /\ UNCHANGED <<nsub, fxOrder, conc>>

\* FtsIndex::index_batch on the handle
DirIndexBatch ==
    \E docs \in Batches(nsub) :
        /\ profile # "none"
        /\ nsub + Len(docs) <= MaxDocs
        /\ eng' = HandleIndexBatch(profile, eng, docs)
        /\ nsub' = nsub + Len(docs)
        /\ lastOp' = "index_batch"
        /\ res' = [call |-> "index_batch", result |-> "Ok"]
        /\ UNCHANGED <<profile, disk, hist, fxOrder, conc>>

\* FtsIndex::commit on the handle
DirCommit ==
    /\ profile # "none"
    /\ eng' = HandleCommit(profile, eng)
    /\ disk' = DirAfterSave(profile, IF profile = "tantivy" THEN TantivyCommit(eng) ELSE eng,
                            disk)
    /\ lastOp' = "commit"
    /\ res' = [call |-> "commit", result |-> "Ok"]
    /\ hist' = [hist EXCEPT !.committed_by = profile,
                            !.committed_count = DocCount(HandleCommit(profile, eng))]
    /\ UNCHANGED <<profile, nsub, fxOrder, conc>>

\* FtsIndex::open(dir)
DirOpen ==
    LET p == DetectProfileDir(disk)
    IN /\ profile' = IF disk.exists THEN p ELSE profile
       /\ eng' = IF disk.exists THEN LoadProfile(p, disk) ELSE eng
       /\ disk' = IF disk.exists THEN DirAfterInit(p, disk) ELSE disk
       /\ lastOp' = IF disk.exists THEN "open" ELSE "open_failed"
       /\ res' = [call |-> "open", result |-> IF disk.exists THEN "Ok" ELSE "NotFound"]
       /\ UNCHANGED <<hist, nsub, fxOrder, conc>>

NextDir == CreateCall \/ DirIndexBatch \/ DirCommit \/ DirOpen

SpecDir == InitDir /\ [][NextDir]_vars

\* C26: open(dir) after create(dir, p), index_batch, commit returns an engine
\* of profile p with the committed doc_count; on a directory that holds no
\* artifact open returns an empty ultra engine, and on a missing directory
\* it fails with NotFound.
C26_OpenReturnsCommittedIndex ==
    /\ [](res.call = "open" =>
            /\ res.result = "NotFound" <=> ~disk.exists
            /\ (res.result = "Ok" /\ DOMAIN disk.files = {}) =>
                   (profile = "ultra" /\ eng = UltraNew))
    /\ [][(lastOp = "commit" /\ res'.call = "open") =>
            (res'.result = "Ok" /\ profile' = profile /\ DocCount(eng') = DocCount(eng))]_vars

\* The closed set of profile names
ClosedNames ==
    {"bmw_simd", "roaring_bm25", "ensemble", "seismic", "tantivy", "turbo", "ultra", "default"}

\* C27: create(dir, name) returns UnknownProfile for every name outside the
\* closed set; for a name in the set it returns an engine of that profile,
\* default selecting ensemble.
C27_UnknownProfileOutsideClosedSet ==
    res.call = "create" =>
        IF res.name \in ClosedNames
        THEN /\ res.result = "Ok"
             /\ profile = IF res.name = "default" THEN "ensemble" ELSE res.name
        ELSE res.result = "UnknownProfile"

-----------------------------------------------------------------------------
(* Queries that yield no token *)

\* Documents of short, ordinary and overlong words
BoundTexts == { <<Run("aa", 1)>>, <<Run("c", 1)>>, <<Run("w33", 1)>>, <<Run("w65", 1)>> }

\* The empty query (also what only separator bytes amount to), queries of
\* words outside the length bounds, and queries with a term
BoundQueries ==
    { <<>>, <<Run("c", 1)>>, <<Run("w65", 1)>>, <<Run("c", 1), Run("w65", 1)>>,
      <<Run("w33", 1)>>, <<Run("aa", 1)>> }

BoundIndexBatchCall == IndexBatchOf(BoundTexts, MaxDocs)

\* FtsIndex::search over BoundQueries
BoundSearchCall ==
    \E query \in BoundQueries, page \in Pages :
      \E hits \in SearchOutcomes(profile, eng, query, page[1], page[2], fxOrder) :
        /\ res' = [query |-> query, limit |-> page[1], offset |-> page[2],
                   hits |-> hits, total |-> Len(hits)]
        /\ eng' = ProfileAfterSearch(profile, eng)
        /\ UNCHANGED <<profile, disk, lastOp, hist, nsub, fxOrder, conc>>

NextBound == BoundIndexBatchCall \/ Commit \/ BoundSearchCall

SpecBound == Init /\ [][NextBound]_vars

\* No word of the query has a length within the profile's token bounds
Tokenless(p, query) ==
    \A i \in 1..Len(query) :
        \/ WordLen(query[i].w) < MIN_LENGTH
        \/ WordLen(query[i].w) > (IF p = "ultra" THEN ULTRA_MAX_LEN ELSE MAX_LENGTH)

\* C28: search with a query that yields no token (empty, or only words
\* outside the length bounds) returns an empty hit list, on an empty index
\* and on a non-empty committed index, in every native profile.
C28_TokenlessQueryNoHits ==
    (res.limit > 0 /\ Tokenless(profile, res.query)) => (res.hits = <<>> /\ res.total = 0)

\* A committed index holding a document of the word "c" was searched for "c"
C28_Witness ==
    /\ res.limit > 0
    /\ res.query = <<Run("c", 1)>>
    /\ lastOp = "commit"
    /\ DocCount(eng) > 0
    /\ \E i \in 1..hist.ncommitted : hist.docs[i].text = <<Run("c", 1)>>

-----------------------------------------------------------------------------
(* ffi.rs: the C interface. Two threads call it on one data directory and  *)
(* share the handle the latest create or open has returned.                *)

Threads == {"A", "B"}

\* A C string argument: a null pointer, bytes that are not UTF-8, or text
NullArg == "<null>"
BadUtf8 == "<invalid utf-8>"

FfiProfileArgs == {NullArg, BadUtf8, "ultra", "lucene"}
FfiDirArgs == {NullArg, BadUtf8, "dir"}
FfiTexts == { <<Run("aa", 1)>> }
MaxFfiDocs == 1

\* Return values: a pointer (null or not), an integer, a struct, or nothing
RetPtr(null) == [kind |-> "ptr", null |-> null, val |-> 0]
RetInt(n) == [kind |-> "int", null |-> FALSE, val |-> n]
RetStruct(n) == [kind |-> "struct", null |-> FALSE, val |-> n]
RetVoid == [kind |-> "void", null |-> FALSE, val |-> 0]

\* static LAST_ERROR (ERROR_STRING holds the text fts_last_error returned
\* last, res.text), and what the threads have seen:
\*   wrote  whether the latest call stored a message in LAST_ERROR
\*   own    per thread, the message its latest failing call stored
FfiInit ==
    [last_error |-> "None", wrote |-> FALSE,
     own |-> [t \in Threads |-> "None"]]

InitFfi ==
    /\ profile = "none"
    /\ eng = NoHandle
    /\ disk = MissingDir
    /\ res = [call |-> "none", thread |-> "A", failed |-> FALSE, ret |-> RetVoid,
              text |-> "None"]
    /\ lastOp = "none"
    /\ hist = HistInit
    /\ nsub = 0
    /\ fxOrder = SetToAscSeq(0..(MaxDocs - 1))
    /\ conc = FfiInit

\* The end of an FFI call on thread t: set_last_error(msg) when the call
\* stores a message (msg is not "None"), and the value returned
FfiReturn(t, call, failed, msg, ret) ==
    /\ res' = [call |-> call, thread |-> t, failed |-> failed, ret |-> ret, text |-> "None"]
    /\ lastOp' = call
    /\ conc' = IF msg = "None" THEN [conc EXCEPT !.wrote = FALSE]
               ELSE [conc EXCEPT !.last_error = msg, !.wrote = TRUE, !.own[t] = msg]

\* Whether the caller passes the handle or a null pointer
IdxArgs == IF profile = "none" THEN {TRUE} ELSE {TRUE, FALSE}

\* fts_index_create(data_dir, profile)
FtsIndexCreate ==
    \E t \in Threads, dir \in FfiDirArgs, name \in FfiProfileArgs :
        LET p == FromStr(name)
            made == dir \notin {NullArg, BadUtf8} /\ name \notin {NullArg, BadUtf8}
            ok == made /\ p # "None"
            msg == CASE dir = NullArg \/ name = NullArg -> "Null pointer passed to fts_index_create"
                     [] dir = BadUtf8 -> "Invalid UTF-8 in data_dir"
                     [] name = BadUtf8 -> "Invalid UTF-8 in profile"
                     [] p = "None" -> "Unknown profile: " \o name
                     [] OTHER -> "None"
        IN /\ disk' = IF ok THEN DirAfterInit(p, [disk EXCEPT !.exists = TRUE])
                      ELSE IF made THEN [disk EXCEPT !.exists = TRUE] ELSE disk
           /\ profile' = IF ok THEN p ELSE profile
           /\ eng' = IF ok THEN InitProfile(p, disk) ELSE eng
           /\ FfiReturn(t, "fts_index_create", ~ok, msg, RetPtr(~ok))
           /\ UNCHANGED <<hist, nsub, fxOrder>>

\* fts_index_open(data_dir)
FtsIndexOpen ==
    \E t \in Threads, dir \in FfiDirArgs :
        LET p == DetectProfileDir(disk)
            ok == dir \notin {NullArg, BadUtf8} /\ disk.exists
            msg == CASE dir = NullArg -> "Null pointer passed to fts_index_open"
                     [] dir = BadUtf8 -> "Invalid UTF-8 in data_dir"
                     [] ~disk.exists -> "Index not found at path: " \o dir
                     [] OTHER -> "None"
        IN /\ profile' = IF ok THEN p ELSE profile
           /\ eng' = IF ok THEN LoadProfile(p, disk) ELSE eng
           /\ disk' = IF ok THEN DirAfterInit(p, disk) ELSE disk
           /\ FfiReturn(t, "fts_index_open", ~ok, msg, RetPtr(~ok))
           /\ UNCHANGED <<hist, nsub, fxOrder>>

\* fts_index_close(idx)
FtsIndexClose ==
    \E t \in Threads, null \in IdxArgs :
        /\ profile' = IF null THEN profile ELSE "none"
        /\ eng' = IF null THEN eng ELSE NoHandle
        /\ FfiReturn(t, "fts_index_close", FALSE, "None", RetVoid)
        /\ UNCHANGED <<disk, hist, nsub, fxOrder>>

\* fts_index_batch(idx, docs_json, ..) over a native profile, whose
\* index_batch returns Ok for every chunk
FtsIndexBatchJson ==
    \E t \in Threads, null \in IdxArgs, json \in {NullArg, BadUtf8, "{", "docs"},
       docs \in BatchesOf(nsub, FfiTexts) :
        LET parsed == ~null /\ json = "docs"
            msg == CASE null \/ json = NullArg -> "Null pointer passed to fts_index_batch"
                     [] json = BadUtf8 -> "Invalid UTF-8 in docs_json"
                     [] json = "{" -> "JSON parse error: EOF while parsing"
                     [] OTHER -> "None"
            code == CASE null \/ json = NullArg -> -1
                      [] json \in {BadUtf8, "{"} -> -2
                      [] OTHER -> Len(docs)
        IN /\ nsub + Len(docs) <= MaxFfiDocs
           /\ parsed \/ docs = <<>>
           /\ eng' = IF parsed THEN HandleIndexBatch(profile, eng, docs) ELSE eng
           /\ nsub' = nsub + Len(docs)
           /\ FfiReturn(t, "fts_index_batch", ~parsed, msg, RetInt(code))
           /\ UNCHANGED <<profile, disk, hist, fxOrder>>

\* fts_index_commit(idx); index.commit() fails when the file cannot be
\* written
FtsIndexCommit ==
    \E t \in Threads, null \in IdxArgs, io_ok \in BOOLEAN :
        LET ok == ~null /\ io_ok
            msg == CASE null -> "Null pointer passed to fts_index_commit"
                     [] ~io_ok -> "IO error: write failed"
                     [] OTHER -> "None"
        IN /\ eng' = IF null THEN eng ELSE HandleCommit(profile, eng)
           /\ disk' = IF ok THEN DirAfterSave(profile, eng, disk) ELSE disk
           /\ FfiReturn(t, "fts_index_commit", ~ok, msg, RetInt(IF ok THEN 0 ELSE -1))
           /\ UNCHANGED <<profile, hist, nsub, fxOrder>>

\* fts_search(idx, query, limit, offset, out) over a native profile, whose
\* search always returns Ok
FtsSearch ==
    \E t \in Threads, null \in IdxArgs, query \in {NullArg, BadUtf8, "aa"} :
        LET ok == ~null /\ query = "aa"
            msg == CASE null \/ query = NullArg -> "Null pointer passed to fts_search"
                     [] query = BadUtf8 -> "Invalid UTF-8 in query"
                     [] OTHER -> "None"
            code == CASE null \/ query = NullArg -> -1
                      [] query = BadUtf8 -> -2
                      [] OTHER -> 0
        IN /\ eng' = IF ok THEN ProfileAfterSearch(profile, eng) ELSE eng
           /\ FfiReturn(t, "fts_search", ~ok, msg, RetInt(code))
           /\ UNCHANGED <<profile, disk, hist, nsub, fxOrder>>

\* fts_memory_stats(idx): the struct, all zero for a null index
FtsMemoryStats ==
    \E t \in Threads, null \in IdxArgs :
        /\ FfiReturn(t, "fts_memory_stats", null, "None",
                     RetStruct(IF null THEN 0 ELSE DocCount(eng)))
        /\ UNCHANGED <<profile, eng, disk, hist, nsub, fxOrder>>

\* fts_profile_name(idx)
FtsProfileName ==
    \E t \in Threads, null \in IdxArgs :
        /\ FfiReturn(t, "fts_profile_name", null, "None", RetPtr(null))
        /\ UNCHANGED <<profile, eng, disk, hist, nsub, fxOrder>>

\* fts_doc_count(idx)
FtsDocCount ==
    \E t \in Threads, null \in IdxArgs :
        /\ FfiReturn(t, "fts_doc_count", null, "None",
                     RetInt(IF null THEN 0 ELSE DocCount(eng)))
        /\ UNCHANGED <<profile, eng, disk, hist, nsub, fxOrder>>

\* fts_index_clear(idx)
FtsIndexClear ==
    \E t \in Threads, null \in IdxArgs :
        /\ eng' = IF null THEN eng ELSE ProfileClear(profile, eng)
        /\ FfiReturn(t, "fts_index_clear", null, "None", RetVoid)
        /\ UNCHANGED <<profile, disk, hist, nsub, fxOrder>>

\* fts_last_error(): the message of LAST_ERROR or "No error", copied into
\* ERROR_STRING, whose pointer is returned
FtsLastError ==
    \E t \in Threads :
        LET msg == IF conc.last_error = "None" THEN "No error" ELSE conc.last_error
        IN /\ res' = [call |-> "fts_last_error", thread |-> t, failed |-> FALSE,
                      ret |-> RetPtr(FALSE), text |-> msg]
           /\ lastOp' = "fts_last_error"
           /\ conc' = [conc EXCEPT !.wrote = FALSE]
           /\ UNCHANGED <<profile, eng, disk, hist, nsub, fxOrder>>

NextFfi ==
    \/ FtsIndexCreate \/ FtsIndexOpen \/ FtsIndexClose \/ FtsIndexBatchJson
    \/ FtsIndexCommit \/ FtsSearch \/ FtsMemoryStats \/ FtsProfileName
    \/ FtsDocCount \/ FtsIndexClear \/ FtsLastError

SpecFfi == InitFfi /\ [][NextFfi]_vars

\* C29: the last-error slot is per thread: fts_last_error() on a thread
\* that has made a failing call returns the message of that thread's latest
\* failure, whatever other threads did in between.
C29_LastErrorPerThread ==
    (res.call = "fts_last_error" /\ conc.own[res.thread] # "None") =>
        res.text = conc.own[res.thread]

\* C30: every failing FFI call returns its sentinel (a null pointer or a
\* negative code) and sets the last-error message.
C30_FailureSetsLastError ==
    res.failed =>
        /\ (res.ret.kind = "ptr" /\ res.ret.null) \/ (res.ret.kind = "int" /\ res.ret.val < 0)
        /\ conc.wrote

-----------------------------------------------------------------------------
(* The top-k insertion loops on their own: the loop over the scored         *)
(* candidates (every profile; in seismic the pass over the flushed blocks)  *)
(* and seismic's pass over the current block, one candidate per step.       *)

MaxK == 2
MaxCandidates == 4
CandidateScores == 1..3

\* The candidates not yet inserted: a doc id is scored once, scores are
\* positive
NewCandidates(seen) ==
    {<<sc, d>> : sc \in CandidateScores,
                 d \in {x \in 0..(MaxCandidates - 1) : \A e \in seen : e[2] # x}}

TopKIdle(k) == [k |-> k, st |-> EmptyTopK, pass |-> "blocks", seen |-> {}]

InitTopK ==
    /\ profile = "seismic"
    /\ eng = SeismicNew
    /\ disk = NoFile
    /\ res = NoResult
    /\ lastOp = "search"
    /\ hist = HistInit
    /\ nsub = 0
    /\ fxOrder = SetToAscSeq(0..(MaxDocs - 1))
    /\ conc \in {TopKIdle(k) : k \in 1..MaxK}

\* One iteration of "build top-k" (in seismic, of the loop over a block)
ScoredInsert ==
    /\ conc.pass = "blocks"
    /\ \E entry \in NewCandidates(conc.seen) :
           conc' = [conc EXCEPT !.st = TopKInsert(@, entry, conc.k),
                                !.seen = @ \cup {entry}]
    /\ lastOp' = "insert"
    /\ UNCHANGED <<profile, eng, disk, res, hist, nsub, fxOrder>>

\* seismic: "Also check current (unflushed) block"
CurrentBlockBegin ==
    /\ conc.pass = "blocks"
    /\ conc' = [conc EXCEPT !.pass = "current"]
    /\ lastOp' = "current_block"
    /\ UNCHANGED <<profile, eng, disk, res, hist, nsub, fxOrder>>

\* One iteration of the loop over the current block
CurrentBlockInsert ==
    /\ conc.pass = "current"
    /\ \E entry \in NewCandidates(conc.seen) :
           conc' = [conc EXCEPT !.st = CurrentInsert(@, entry, conc.k),
                                !.seen = @ \cup {entry}]
    /\ lastOp' = "insert_current"
    /\ UNCHANGED <<profile, eng, disk, res, hist, nsub, fxOrder>>

NextTopK == ScoredInsert \/ CurrentBlockBegin \/ CurrentBlockInsert

SpecTopK == InitTopK /\ [][NextTopK]_vars

\* C31: in every insertion loop, the pass over seismic's current block
\* included, the threshold is the heap's smallest score when the heap holds
\* k entries and 0 before that, and the heap holds the k highest-scoring
\* candidates inserted so far.
C31_ThresholdIsHeapMin ==
    /\ Cardinality(conc.st.heap) = conc.k => conc.st.threshold = HeapMin(conc.st.heap)[1]
    /\ Cardinality(conc.st.heap) < conc.k => conc.st.threshold = 0
    /\ Cardinality(conc.st.heap) = Min2(conc.k, Cardinality(conc.seen))
    /\ \A e \in conc.seen \ conc.st.heap : \A h \in conc.st.heap : e[1] <= h[1]

-----------------------------------------------------------------------------
(* Concurrent searches on one ultra engine. FtsIndex::search takes the      *)
(* profile lock shared, so any number of threads run search_fast together;  *)
(* each call is split at its lock operations. The shard tasks of par_iter   *)
(* run on the workers of the shared pool. parking_lot's RwLock blocks a new *)
(* reader while a writer waits.                                             *)

Searchers == {1, 2, 3}
MaxPool == 2
SearchersQueries == { <<Run("aa", 1)>>, <<>> }
\* The batches indexed, and not committed, before the searches start
SearchersBatches == {docs \in BatchesOf(0, { <<Run("aa", 1), Run("bb", 1)>> }) : Len(docs) = 1}

\* *self.block_maxes_dirty.write() = false
BlockMaxesDirtyKept == TRUE
BlockMaxesDirtyAfter == FALSE

NoTasks == [s \in 1..NUM_SHARDS |-> "none"]

\* pc     where each thread is in search_fast
\* task   its par_iter closures: "todo", "waiting" for the shard's write
\*        lock, "holding" it, "done"
\* next   the shard whose read guard the scoring phase takes next: it holds
\*        the guards of the shards before it
\* pool   the number of pool workers
SearchersIdle(pool) ==
    [pc |-> [t \in Searchers |-> "idle"], task |-> [t \in Searchers |-> NoTasks],
     next |-> [t \in Searchers |-> 1], query |-> [t \in Searchers |-> <<>>], pool |-> pool]

ShardReaders(c, s) == {t \in Searchers : c.pc[t] = "locking" /\ s < c.next[t]}
ShardWriters(c, s) == {t \in Searchers : c.task[t][s] = "holding"}
ShardWaiting(c, s) == {t \in Searchers : c.task[t][s] = "waiting"}

\* The pool workers that run a closure
BusyWorkers(c) ==
    Cardinality({<<t, s>> \in Searchers \X (1..NUM_SHARDS) :
                    c.task[t][s] \in {"waiting", "holding"}})

InitSearchers ==
    /\ profile = "ultra"
    /\ eng \in {UltraNew} \cup {UltraIndexBatch(UltraNew, docs) : docs \in SearchersBatches}
    /\ disk = NoFile
    /\ res = NoResult
    /\ lastOp = "index_batch"
    /\ hist = HistInit
    /\ nsub = 0
    /\ fxOrder = SetToAscSeq(0..(MaxDocs - 1))
    /\ conc \in {SearchersIdle(pool) : pool \in 1..MaxPool}

\* FtsIndex::search: self.profile.read().search(query, limit, offset)
SCall(t) ==
    /\ conc.pc[t] = "idle"
    /\ \E query \in SearchersQueries :
           conc' = [conc EXCEPT !.pc[t] = "called", !.query[t] = query]
    /\ UNCHANGED <<profile, eng, disk, res, lastOp, hist, nsub, fxOrder>>

\* compute_all_block_maxes: the dirty check, the doc_count check, and
\* doc_lengths.read()
SCheckDirty(t) ==
    /\ conc.pc[t] = "called"
    /\ conc' = IF eng.block_maxes_dirty /\ eng.doc_count > 0
               THEN [conc EXCEPT !.pc[t] = "maxes",
                                 !.task[t] = [s \in 1..NUM_SHARDS |-> "todo"]]
               ELSE [conc EXCEPT !.pc[t] = "begin"]
    /\ UNCHANGED <<profile, eng, disk, res, lastOp, hist, nsub, fxOrder>>

\* A pool worker starts the closure of shard s: shard_lock.write() is asked
STaskRequest(t, s) ==
    /\ conc.pc[t] = "maxes"
    /\ conc.task[t][s] = "todo"
    /\ BusyWorkers(conc) < conc.pool
    /\ conc' = [conc EXCEPT !.task[t][s] = "waiting"]
    /\ UNCHANGED <<profile, eng, disk, res, lastOp, hist, nsub, fxOrder>>

\* The write lock of shard s is granted; the closure recomputes the block
\* maxes of the shard's posting lists
STaskGrant(t, s) ==
    /\ conc.task[t][s] = "waiting"
    /\ ShardReaders(conc, s) = {}
    /\ ShardWriters(conc, s) = {}
    /\ conc' = [conc EXCEPT !.task[t][s] = "holding"]
    /\ eng' = [eng EXCEPT !.shards[s] =
                  ComputeAllBlockMaxes([eng EXCEPT !.block_maxes_dirty = TRUE]).shards[s]]
    /\ UNCHANGED <<profile, disk, res, lastOp, hist, nsub, fxOrder>>

\* The closure ends and drops the shard's write guard
STaskRelease(t, s) ==
    /\ conc.task[t][s] = "holding"
    /\ conc' = [conc EXCEPT !.task[t][s] = "done"]
    /\ UNCHANGED <<profile, eng, disk, res, lastOp, hist, nsub, fxOrder>>

\* par_iter has returned: the flag is cleared and doc_lengths dropped
SMaxesDone(t) ==
    /\ conc.pc[t] = "maxes"
    /\ \A s \in 1..NUM_SHARDS : conc.task[t][s] = "done"
    /\ eng' = [eng EXCEPT !.block_maxes_dirty = BlockMaxesDirtyAfter]
    /\ conc' = [conc EXCEPT !.pc[t] = "begin", !.task[t] = NoTasks]
    /\ UNCHANGED <<profile, disk, res, lastOp, hist, nsub, fxOrder>>

\* search_fast after compute_all_block_maxes: doc_lengths.read(),
\* doc_ids.read(), the two early returns
SBegin(t) ==
    /\ conc.pc[t] = "begin"
    /\ IF eng.doc_count = 0 \/ TokenizeFast(conc.query[t]) = <<>>
       THEN /\ conc' = [conc EXCEPT !.pc[t] = "done"]
            /\ res' = [query |-> conc.query[t], limit |-> MaxBatch, offset |-> 0,
                       hits |-> <<>>, total |-> 0]
            /\ lastOp' = "search"
       ELSE /\ conc' = [conc EXCEPT !.pc[t] = "locking", !.next[t] = 1]
            /\ UNCHANGED <<res, lastOp>>
    /\ UNCHANGED <<profile, eng, disk, hist, nsub, fxOrder>>

\* self.shards.iter().map(|s| s.read()): the next shard's read guard
SLockShard(t) ==
    /\ conc.pc[t] = "locking"
    /\ conc.next[t] <= NUM_SHARDS
    /\ ShardWriters(conc, conc.next[t]) = {}
    /\ ShardWaiting(conc, conc.next[t]) = {}
    /\ conc' = [conc EXCEPT !.next[t] = @ + 1]
    /\ UNCHANGED <<profile, eng, disk, res, lastOp, hist, nsub, fxOrder>>

\* Scoring under all the guards, then the return, which drops them
SScore(t) ==
    /\ conc.pc[t] = "locking"
    /\ conc.next[t] = NUM_SHARDS + 1
    /\ \E hits \in {UltraSearchFast([eng EXCEPT !.block_maxes_dirty = FALSE],
                                      conc.query[t], MaxBatch, 0, fxOrder)} :
           res' = [query |-> conc.query[t], limit |-> MaxBatch, offset |-> 0,
                   hits |-> hits, total |-> Len(hits)]
    /\ lastOp' = "search"
    /\ conc' = [conc EXCEPT !.pc[t] = "done", !.next[t] = 1]
    /\ UNCHANGED <<profile, eng, disk, hist, nsub, fxOrder>>

\* The steps before the scoring
SRun ==
    \E t \in Searchers :
        \/ SCheckDirty(t) \/ SMaxesDone(t) \/ SBegin(t) \/ SLockShard(t)
        \/ \E s \in 1..NUM_SHARDS : STaskRequest(t, s) \/ STaskGrant(t, s) \/ STaskRelease(t, s)

NextSearchers == \E t \in Searchers : SCall(t) \/ SScore(t) \/ SRun

SpecSearchers == InitSearchers /\ [][NextSearchers]_vars

\* SScore(t) can be taken
ScoreReady(t) == conc.pc[t] = "locking" /\ conc.next[t] = NUM_SHARDS + 1

\* Every thread and every pool worker that can take a step is scheduled:
\* weak fairness of the steps, that of SScore written with its enabling
\* condition
SpecSearchersFair ==
    /\ SpecSearchers
    /\ WF_vars(SRun)
    /\ \A t \in Searchers : []<>(~ScoreReady(t)) \/ []<><<SScore(t)>>_vars

SearchersReturned ==
    /\ \A t \in Searchers : conc.pc[t] \in {"idle", "done"}
    /\ \E t \in Searchers : conc.pc[t] = "done"

\* C32 as stated: concurrent searches on an ultra engine whose block maxes
\* are dirty all terminate, and afterwards the dirty flag is false.
C32_SearchesTerminateFlagFalse ==
    /\ []<>(\A t \in Searchers : conc.pc[t] \in {"idle", "done"})
    /\ [](SearchersReturned => ~eng.block_maxes_dirty)

\* C32, amended: concurrent searches on an ultra engine whose block maxes
\* are dirty all terminate, and afterwards the dirty flag is false when the
\* engine holds a document (on an empty engine the recomputation returns
\* before it clears the flag).
C32_SearchesTerminate ==
    /\ []<>(\A t \in Searchers : conc.pc[t] \in {"idle", "done"})
    /\ [](SearchersReturned /\ eng.doc_count > 0 => ~eng.block_maxes_dirty)

\* A recomputation waits for a shard's write lock while another search
\* holds that shard's read guard and a third waits behind the writer
C32_Witness ==
    \E t, u, v \in Searchers : \E s \in 1..NUM_SHARDS :
        /\ conc.task[t][s] = "waiting"
        /\ u \in ShardReaders(conc, s)
        /\ conc.pc[v] = "locking" /\ conc.next[v] = s

-----------------------------------------------------------------------------
(* What index_batch of the ultra profile leaves alone *)

\* Every posting list of e is in f at the same place with the same idf and
\* block maxes, its entries a prefix of the entries in f
OnlyAppends(e, f) ==
    \A s \in 1..NUM_SHARDS :
        /\ \A hash \in DOMAIN e.shards[s].term_dict :
               /\ hash \in DOMAIN f.shards[s].term_dict
               /\ f.shards[s].term_dict[hash] = e.shards[s].term_dict[hash]
        /\ Len(f.shards[s].postings) >= Len(e.shards[s].postings)
        /\ \A i \in 1..Len(e.shards[s].postings) :
               LET old == e.shards[s].postings[i]
                   new == f.shards[s].postings[i]
               IN /\ new.idf = old.idf
                  /\ new.block_maxes = old.block_maxes
                  /\ Len(new.entries) >= Len(old.entries)
                  /\ SubSeq(new.entries, 1, Len(old.entries)) = old.entries

\* The write guards of shard s among the guards an operation takes
ShardWriteGuards(todo, s) ==
    {i \in 1..Len(todo) : todo[i] = Guard("acquire", "shard", s)}

\* C33 as stated: index_batch only appends (idf, block maxes and entries of
\* the posting lists that existed are unchanged), takes each shard's write
\* lock exactly once and sets the dirty flag.
C33_IndexBatchOnlyAppends ==
    [][/\ (conc.op = "idle" /\ conc'.op = "index_batch") =>
              \A s \in 1..NUM_SHARDS : Cardinality(ShardWriteGuards(conc'.todo, s)) = 1
       /\ (conc.op = "index_batch" /\ conc'.op = "idle") =>
              (OnlyAppends(eng, eng') /\ eng'.block_maxes_dirty)]_vars

\* C33, amended: index_batch only appends; with a non-empty batch it takes
\* each shard's write lock exactly once and sets the dirty flag; with an
\* empty batch it takes no lock and leaves the flag as it was.
C33_IndexBatchOnlyAppendsNonEmpty ==
    [][/\ (conc.op = "idle" /\ conc'.op = "index_batch") =>
              \A s \in 1..NUM_SHARDS :
                  Cardinality(ShardWriteGuards(conc'.todo, s)) =
                      (IF conc'.docs = <<>> THEN 0 ELSE 1)
       /\ (conc.op = "index_batch" /\ conc'.op = "idle") =>
              /\ OnlyAppends(eng, eng')
              /\ eng'.block_maxes_dirty = (conc.docs # <<>> \/ eng.block_maxes_dirty)]_vars

\* index_batch has appended to a posting list whose block maxes a commit
\* had computed
C33_Witness ==
    /\ lastOp = "index_batch"
    /\ conc.op = "idle"
    /\ eng.block_maxes_dirty
    /\ \E s \in 1..NUM_SHARDS : \E i \in 1..Len(eng.shards[s].postings) :
           /\ eng.shards[s].postings[i].block_maxes # <<>>
           /\ eng.shards[s].postings[i].idf # 0
           /\ Len(eng.shards[s].postings[i].entries)
                  > ULTRA_BLOCK_SIZE * Len(eng.shards[s].postings[i].block_maxes)

-----------------------------------------------------------------------------
(* Bitmaps of the ensemble and turbo profiles *)

\* The doc ids stored in the blocks of a posting list, in order
BlockDocIds(posting) ==
    ConcatAll([b \in 1..Len(posting.blocks) |-> posting.blocks[b].doc_ids])

\* C34: in the ensemble and turbo profiles, in every reachable state and for
\* every posting list, the bitmap is the set of the doc ids stored in the
\* list's blocks and its cardinality is df.
C34_BitmapMatchesBlocks ==
    profile \in {"ensemble", "turbo"} =>
        \A i \in 1..Len(eng.postings) :
            /\ eng.postings[i].bitmap = SeqRange(BlockDocIds(eng.postings[i]))
            /\ Cardinality(eng.postings[i].bitmap) = eng.postings[i].df
            /\ Len(BlockDocIds(eng.postings[i])) = eng.postings[i].df

\* A later commit has merged new entries into an existing term
C34_Witness ==
    /\ profile \in {"ensemble", "turbo"}
    /\ \E i \in 1..Len(eng.postings) :
           /\ Len(eng.postings[i].blocks) >= 2
           /\ eng.postings[i].df >= 2

-----------------------------------------------------------------------------
(* The ordered term dictionary (FST) of the ensemble profile *)

\* The FST maps exactly the terms of the term-offset table, each to the
\* posting index the table gives
FstMatchesOffsets(e) ==
    /\ {e.fst[i][1] : i \in 1..Len(e.fst)} = DOMAIN e.term_offsets
    /\ \A i \in 1..Len(e.fst) : e.fst[i][2] = e.term_offsets[e.fst[i][1]]
    /\ Len(e.fst) = Cardinality(DOMAIN e.term_offsets)

\* C35: in the ensemble profile a commit that has documents to build marks
\* the dictionary dirty, and whenever the dirty flag is false and an FST is
\* present the FST maps exactly the terms of the term-offset table to the
\* same posting indices.
C35_FstCurrentWhenClean ==
    profile = "ensemble" =>
        /\ eng.pending # <<>> => EnsembleCommit(eng).fst_dirty
        /\ (~eng.fst_dirty /\ eng.fst # <<>>) => FstMatchesOffsets(eng)

\* A clean FST after a second commit has appended to the postings
C35_Witness ==
    /\ profile = "ensemble"
    /\ lastOp = "commit"
    /\ ~eng.fst_dirty
    /\ eng.fst # <<>>
    /\ \E i \in 1..Len(eng.postings) : Len(eng.postings[i].blocks) >= 2

-----------------------------------------------------------------------------
(* UltraProfile: the per-document vectors against doc_count *)

\* C36: in the ultra profile, after any sequence of index_batch, commit,
\* clear and load, doc_lengths, doc_ids and doc_id_hashes all have length
\* doc_count.
C36_DocVectorsHaveDocCount ==
    profile = "ultra" =>
        /\ Len(eng.doc_lengths) = eng.doc_count
        /\ Len(eng.doc_ids) = eng.doc_count
        /\ Len(eng.doc_id_hashes) = eng.doc_count

-----------------------------------------------------------------------------
(* SearchProfile::load called on the profile object, on a file that stops   *)
(* being readable part-way: what the reads before the failing one have      *)
(* already stored in the profile.                                          *)

\* Where the read of a file fails. stage is the group of reads the failing
\* read belongs to; for a shard record it comes with the term-dictionary
\* entries and the number of posting lists read before it. utf8: the failing
\* read is a String::from_utf8, not a read_exact.
CutAt(stage, shard, terms, postings, utf8) ==
    [stage |-> stage, shard |-> shard, terms |-> terms, postings |-> postings,
     utf8 |-> utf8]

CutStage(stage, utf8) == CutAt(stage, 0, {}, 0, utf8)

\* The failures of UltraProfile::load on a stored ultra.idx. The entries of
\* a shard's term dictionary are on file in the HashMap order of the save,
\* so the entries read before the failing one can be any of them.
UltraCuts(image) ==
    {CutStage(st, FALSE) : st \in {"magic", "bad_magic", "header", "lengths"}}
    \cup {CutStage("ids", u) : u \in {b \in BOOLEAN : image.doc_count > 0}}
    \cup UNION {
           {CutAt("shard", s, {}, 0, FALSE)}
           \cup {CutAt("shard", s, K, 0, u) :
                   K \in (SUBSET DOMAIN image.shards[s].term_dict)
                         \ {DOMAIN image.shards[s].term_dict},
                   u \in BOOLEAN}
           \cup {CutAt("shard", s, DOMAIN image.shards[s].term_dict, n, FALSE) :
                   n \in 0..(Len(image.shards[s].postings) - 1)}
           : s \in 1..NUM_SHARDS}

\* The failures of EnsembleProfile::load on a stored ensemble.idx
EnsembleCuts(image) ==
    {CutStage(st, FALSE) :
        st \in {"magic", "bad_magic", "header", "fst", "postings", "lengths"}}
    \cup {CutStage("terms", u) : u \in {b \in BOOLEAN : image.term_offsets # EmptyMap}}
    \cup {CutStage("ids", u) : u \in {b \in BOOLEAN : image.doc_count > 0}}

\* The posting lists of a stored shard as load pushes them
LoadedPostings(stored, n) ==
    [p \in 1..n |-> [entries |-> stored[p].entries, block_maxes |-> <<>>,
                     df |-> stored[p].df, idf |-> stored[p].idf]]

\* UltraProfile::load, version 2 format, up to the failing read: the magic
\* and the counts go to locals, total_doc_length is stored as soon as it is
\* read, each shard is cleared under its write lock and filled entry by
\* entry, the document vectors and doc_count are stored after the last read.
UltraLoadCut(e, image, cut) ==
    IF cut.stage \in {"magic", "bad_magic", "header"} THEN e
    ELSE LET upto == IF cut.stage = "shard" THEN cut.shard - 1 ELSE NUM_SHARDS
         IN [e EXCEPT
               !.total_doc_length = image.total_doc_length,
               !.shards = [s \in 1..NUM_SHARDS |->
                   IF s <= upto
                   THEN [term_dict |-> image.shards[s].term_dict,
                         postings |-> LoadedPostings(image.shards[s].postings,
                                                     Len(image.shards[s].postings))]
                   ELSE IF s = upto + 1
                   THEN [term_dict |-> [h \in cut.terms |-> image.shards[s].term_dict[h]],
                         postings |-> LoadedPostings(image.shards[s].postings,
                                                     cut.postings)]
                   ELSE e.shards[s]]]

\* EnsembleProfile::load up to the failing read: everything read is held in
\* locals, the profile is assigned after the last read only.
EnsembleLoadCut(e, image, cut) == e

\* The IndexError of the failing read
CutError(cut) ==
    IF cut.stage = "bad_magic" \/ cut.utf8 THEN "Corrupted" ELSE "Io"

IsCut(image) == "cut" \in DOMAIN image

InitReload ==
    /\ Init
    /\ profile \in {"ultra", "ensemble"}

\* The index file is cut short, or bytes of it are overwritten, behind the
\* profile's back
CutFile ==
    /\ disk # NoFile
    /\ ~IsCut(disk)
    /\ \E cut \in IF profile = "ultra" THEN UltraCuts(disk) ELSE EnsembleCuts(disk) :
          disk' = [file |-> disk.file, cut |-> cut, content |-> disk]
    /\ lastOp' = "cut"
    /\ res' = NoResult
    /\ UNCHANGED <<profile, eng, hist, nsub, fxOrder, conc>>

\* SearchProfile::load(data_dir) on the profile the caller holds
LoadCall ==
    LET missing == disk = NoFile
        failed == IF missing THEN profile = "ensemble" ELSE IsCut(disk)
        after == IF missing THEN eng
                 ELSE IF ~IsCut(disk) THEN ProfileLoad(profile, eng, disk)
                 ELSE IF profile = "ultra" THEN UltraLoadCut(eng, disk.content, disk.cut)
                 ELSE EnsembleLoadCut(eng, disk.content, disk.cut)
    IN /\ eng' = after
       /\ lastOp' = IF failed THEN "load_failed" ELSE "load"
       /\ res' = [call |-> "load",
                  result |-> IF ~failed THEN "Ok"
                             ELSE IF missing THEN "Io" ELSE CutError(disk.cut)]
       /\ hist' = IF failed THEN hist
                  ELSE [hist EXCEPT
                          !.prev = "none", !.phase = "none",
                          !.doc_count = 0, !.pending = 0, !.batch = <<>>]
       /\ UNCHANGED <<profile, disk, nsub, fxOrder, conc>>

NextReload == IndexBatch \/ Commit \/ CutFile \/ LoadCall

SpecReload == InitReload /\ [][NextReload]_vars

\* C37: a load that fails part-way (bad magic, truncated file, invalid
\* UTF-8 in a term or id) leaves the profile's in-memory state exactly as it
\* was before the call, in the ultra profile as in the ensemble profile.
C37_FailedLoadChangesNothing ==
    [][lastOp' = "load_failed" => eng' = eng]_vars

-----------------------------------------------------------------------------
(* The two tokenizers of the ultra profile on the same text *)

\* UltraProfile::tokenize_fast(text)
TokenizeFastCall ==
    /\ lastOp = "create"
    /\ res' = [res EXCEPT !.out = Returned(TokenizeFast(res.text), FALSE, FALSE)]
    /\ lastOp' = "tokenize_fast"
    /\ UNCHANGED <<profile, eng, disk, hist, nsub, fxOrder, conc>>

NextUltraTokenizers == TokenizeFastHashOnlyCall \/ TokenizeFastCall

SpecUltraTokenizers == InitTokenizer /\ [][NextUltraTokenizers]_vars

\* The term hashes a tokenizer call returned
ReturnedHashes ==
    IF lastOp = "tokenize_fast" THEN SeqRange(res.out.value)
    ELSE {res.out.value[j][1] : j \in 1..Len(res.out.value)}

\* The FNV-1a hashes of the lowercased runs of letters and digits of
\* length 2..32 in the text
RunHashes(text) ==
    {Fnv1a(NormalizeToken(text[i].w)) :
        i \in {j \in 1..Len(text) : WordLen(text[j].w) >= 2 /\ WordLen(text[j].w) <= 32}}

\* C38: tokenize_fast_hash_only and tokenize_fast agree on every input: for
\* every text each of them returns the same set of term hashes, the FNV-1a
\* hashes of the lowercased runs of letters and digits of length 2..32.
C38_TokenizersAgree ==
    lastOp \in {"tokenize_fast_hash_only", "tokenize_fast"} =>
        /\ ~res.out.panicked
        /\ ReturnedHashes = RunHashes(res.text)

-----------------------------------------------------------------------------
(* fts_index_batch and its progress callback, chunk by chunk, on a tantivy  *)
(* handle (the profile whose index_batch can fail). conc holds the call in  *)
(* progress: the chunks, the number k of the next chunk, the local indexed, *)
(* the invocations of the callback so far and the return code.             *)

ProgressIdle ==
    [pc |-> "idle", progress |-> FALSE, chunks |-> <<>>, k |-> 1, indexed |-> 0,
     total |-> 0, calls |-> <<>>, failed |-> FALSE, code |-> 0]

\* `if let Some(cb) = progress { cb(indexed, total); }`
Callback(c, indexed, total) ==
    IF c.progress THEN Append(c.calls, <<indexed, total>>) ELSE c.calls

\* `indexed += n as u64;` after index_batch returned Ok(n)
IndexedAfterDropped(indexed, n) == n

IndexedAfter(indexed, n) == indexed + n

InitProgress ==
    /\ profile = "tantivy"
    /\ eng = TantivyInitIndex(TantivyNew, <<>>)
    /\ disk = NoFile
    /\ res = NoResult
    /\ lastOp = "create"
    /\ hist = HistInit
    /\ nsub = 0
    /\ fxOrder = SetToAscSeq(0..(MaxDocs - 1))
    /\ conc = ProgressIdle

\* fts_index_batch(idx, docs_json, docs_len, progress) with a valid handle
\* and JSON text, up to the first chunk: the documents are parsed, total is
\* taken and the callback is invoked with (0, total)
FtsBatchBegin ==
    \E docs \in Batches(nsub), progress \in BOOLEAN :
        /\ conc.pc \in {"idle", "returned"}
        /\ nsub + Len(docs) <= MaxTantivyDocs
        /\ conc' = [pc |-> "chunks", progress |-> progress,
                    chunks |-> Chunks(docs, CHUNK_SIZE), k |-> 1, indexed |-> 0,
                    total |-> Len(docs),
                    calls |-> IF progress THEN << <<0, Len(docs)>> >> ELSE <<>>,
                    failed |-> FALSE, code |-> 0]
        /\ nsub' = nsub + Len(docs)
        /\ lastOp' = "fts_index_batch_begin"
        /\ hist' = [hist EXCEPT !.batch = [i \in 1..Len(docs) |-> docs[i].id],
                                !.docs = @ \o docs]
        /\ res' = NoResult
        /\ UNCHANGED <<profile, eng, disk, fxOrder>>

\* One turn of `for chunk in docs.chunks(CHUNK_SIZE)`: index.index_batch on
\* the chunk, then the callback with the new indexed, or set_last_error and
\* `return -3`
FtsBatchChunk ==
    \E fail_at \in 0..CHUNK_SIZE, commit_ok \in BOOLEAN :
        /\ conc.pc = "chunks"
        /\ conc.k <= Len(conc.chunks)
        /\ fail_at <= Len(conc.chunks[conc.k])
        /\ LET r == TantivyIndexBatch(eng, conc.chunks[conc.k], fail_at, commit_ok)
               indexed == IndexedAfter(conc.indexed, r.count)
           IN /\ eng' = r.eng
              /\ conc' = IF r.ok
                         THEN [conc EXCEPT !.k = @ + 1, !.indexed = indexed,
                                           !.calls = Callback(conc, indexed, conc.total)]
                         ELSE [conc EXCEPT !.pc = "returned", !.failed = TRUE, !.code = -3]
              /\ lastOp' = IF r.ok THEN "fts_index_batch_chunk" ELSE "fts_index_batch_failed"
              /\ res' = IF r.ok THEN res ELSE [call |-> "fts_index_batch", code |-> -3]
        /\ UNCHANGED <<profile, disk, hist, nsub, fxOrder>>

\* The loop is over: `indexed as i64`
FtsBatchReturn ==
    /\ conc.pc = "chunks"
    /\ conc.k > Len(conc.chunks)
    /\ conc' = [conc EXCEPT !.pc = "returned", !.code = conc.indexed]
    /\ lastOp' = "fts_index_batch"
    /\ res' = [call |-> "fts_index_batch", code |-> conc.indexed]
    /\ UNCHANGED <<profile, eng, disk, hist, nsub, fxOrder>>

NextProgress == FtsBatchBegin \/ FtsBatchChunk \/ FtsBatchReturn

SpecProgress == InitProgress /\ [][NextProgress]_vars

\* C39: during fts_index_batch with a progress callback, the callback is
\* invoked first with (0, total), then once after each successfully indexed
\* chunk, with an indexed value that never decreases and never exceeds
\* total; on success the last invocation is (total, total) and the call
\* returns total; after a chunk fails there is no further invocation and
\* the call returns -3.
C39_ProgressCallbacks ==
    (conc.pc # "idle" /\ conc.progress) =>
        /\ Len(conc.calls) = conc.k
        /\ conc.calls[1] = <<0, conc.total>>
        /\ \A i \in 1..Len(conc.calls) :
              /\ conc.calls[i][2] = conc.total
              /\ conc.calls[i][1] <= conc.total
              /\ i > 1 => conc.calls[i - 1][1] <= conc.calls[i][1]
        /\ (conc.pc = "returned" /\ ~conc.failed) =>
              /\ conc.calls[Len(conc.calls)] = <<conc.total, conc.total>>
              /\ conc.code = conc.total
        /\ (conc.pc = "returned" /\ conc.failed) => conc.code = -3

\* A call that indexed its first chunk, reported it, and failed in the next
C39_Witness ==
    /\ conc.pc = "returned"
    /\ conc.progress
    /\ conc.failed
    /\ conc.total >= 2
    /\ Len(conc.calls) = 2

-----------------------------------------------------------------------------
(* fts_index_batch_binary: the buffer of `u32 id_len | id | u32 text_len |  *)
(* text` records, byte by byte                                             *)

MaxBinaryRecords == 2

\* Scaled: the largest capacity Vec::<Document>::with_capacity accepts,
\* isize::MAX / size_of::<Document>(); a larger one panics with "capacity
\* overflow"
MAX_DOCUMENT_CAPACITY == 8

\* u32::to_le_bytes
U32Le(n) == <<n % 256, (n \div 256) % 256, (n \div 65536) % 256, n \div 16777216>>

\* u32::from_le_bytes([bytes[pos], bytes[pos + 1], bytes[pos + 2], bytes[pos + 3]])
U32FromLe(bytes, pos) ==
    bytes[pos + 1] + 256 * bytes[pos + 2] + 65536 * bytes[pos + 3]
        + 16777216 * bytes[pos + 4]

\* std::str::from_utf8 on the bytes the model's callers send: ASCII bytes,
\* and 0xFF, which no UTF-8 text holds
Utf8Valid(bytes) == \A i \in 1..Len(bytes) : bytes[i] < 128

\* The records a caller encodes: record i has the id "i" and the text "aa";
\* bad names the field in which the caller's bytes are not UTF-8
BinRecord(i, bad) ==
    [id |-> IF bad = "id" THEN <<255>> ELSE <<48 + i>>,
     text |-> IF bad = "text" THEN <<97, 255>> ELSE <<97, 97>>,
     bad |-> bad]

BinRecordSeqs ==
    UNION {{[i \in 1..n |-> BinRecord(i, bads[i])] : bads \in [1..n -> {"none", "id", "text"}]}
              : n \in 0..MaxBinaryRecords}

EncodeRecord(r) == U32Le(Len(r.id)) \o r.id \o U32Le(Len(r.text)) \o r.text

RECURSIVE EncodeRecords(_)
EncodeRecords(recs) ==
    IF recs = <<>> THEN <<>> ELSE EncodeRecord(Head(recs)) \o EncodeRecords(Tail(recs))

\* doc_count arguments: up to one more than the records sent, and one past
\* the capacity a Vec<Document> can have
BinDocCounts == 0..(MaxBinaryRecords + 1) \cup {MAX_DOCUMENT_CAPACITY + 1}

\* The parsing loop of fts_index_batch_binary from byte pos on: Ok with the
\* documents, or the error of the first field that is not UTF-8
RECURSIVE ParseBinary(_, _, _, _)
ParseBinary(bytes, pos, docs, doc_count) ==
    LET parsed == [ok |-> TRUE, docs |-> docs]
        invalid == [ok |-> FALSE, docs |-> <<>>]
        id_len == U32FromLe(bytes, pos)
        id_pos == pos + 4
        id == SubSeq(bytes, id_pos + 1, id_pos + id_len)
        len_pos == id_pos + id_len
        text_len == U32FromLe(bytes, len_pos)
        text_pos == len_pos + 4
        text == SubSeq(bytes, text_pos + 1, text_pos + text_len)
    IN IF ~(pos + 8 <= Len(bytes) /\ Len(docs) < doc_count) THEN parsed
       ELSE IF id_pos + id_len > Len(bytes) THEN parsed
       ELSE IF ~Utf8Valid(id) THEN invalid
       ELSE IF len_pos + 4 > Len(bytes) THEN parsed
       ELSE IF text_pos + text_len > Len(bytes) THEN parsed
       ELSE IF ~Utf8Valid(text) THEN invalid
       ELSE ParseBinary(bytes, text_pos + text_len,
                        Append(docs, [id |-> id, text |-> text]), doc_count)

\* Document::new(id, text) of a parsed record, as the model writes documents
DocumentOfBytes(id, text) ==
    Document(ExtId(id[1] - 48), IF text = <<97, 97>> THEN <<Run("aa", 1)>> ELSE <<>>)

DocumentsOfBytes(recs) == [i \in 1..Len(recs) |-> DocumentOfBytes(recs[i].id, recs[i].text)]

InitBinary ==
    /\ Init
    /\ profile \in {"ultra", "turbo"}

\* fts_index_batch_binary(idx, data, data_len, doc_count, progress) with a
\* valid handle: the Vec of doc_count documents is reserved, the buffer is
\* parsed, then index.index_batch runs once on the parsed documents. A
\* capacity overflow panics inside the extern "C" function and the process
\* aborts.
FtsIndexBatchBinary ==
    \E recs \in BinRecordSeqs, doc_count \in BinDocCounts :
      \E cut \in 0..Len(EncodeRecords(recs)) :
        LET bytes == SubSeq(EncodeRecords(recs), 1, cut)
            aborted == doc_count > MAX_DOCUMENT_CAPACITY
            p == ParseBinary(bytes, 0, <<>>, doc_count)
            docs == DocumentsOfBytes(p.docs)
            indexes == ~aborted /\ p.ok
        IN /\ lastOp \notin {"aborted", "fts_index_batch_binary"}
           /\ nsub + Len(recs) <= MaxDocs
           /\ eng' = IF indexes THEN ProfileIndexBatch(profile, eng, docs) ELSE eng
           /\ nsub' = IF indexes THEN nsub + Len(docs) ELSE nsub
           /\ hist' = IF indexes THEN [hist EXCEPT !.docs = @ \o docs] ELSE hist
           /\ lastOp' = IF aborted THEN "aborted" ELSE "fts_index_batch_binary"
           /\ res' = [call |-> "fts_index_batch_binary",
                      records |-> recs, cut |-> cut, doc_count |-> doc_count,
                      returned |-> ~aborted,
                      code |-> IF aborted THEN 0 ELSE IF p.ok THEN Len(docs) ELSE -2,
                      calls |-> IF indexes
                                THEN << <<0, Len(docs)>>, <<Len(docs), Len(docs)>> >>
                                ELSE <<>>]
           /\ UNCHANGED <<profile, disk, fxOrder, conc>>

\* FtsIndex::index_batch by the caller that is still running
IndexBatchAlive == lastOp # "aborted" /\ IndexBatch

NextBinary == FtsIndexBatchBinary \/ IndexBatchAlive

SpecBinary == InitBinary /\ [][NextBinary]_vars

\* The number of records that lie whole in the first cut bytes
RECURSIVE CompleteRecords(_, _)
CompleteRecords(recs, cut) ==
    IF recs = <<>> \/ Len(EncodeRecord(Head(recs))) > cut THEN 0
    ELSE 1 + CompleteRecords(Tail(recs), cut - Len(EncodeRecord(Head(recs))))

\* C40: fts_index_batch_binary indexes exactly the longest prefix of
\* complete records of the buffer, at most doc_count of them, in buffer
\* order, and returns their number; when an id or text among them is not
\* valid UTF-8 it returns -2 and indexes no document.
C40_BinaryIndexesCompletePrefix ==
    [][lastOp' \in {"fts_index_batch_binary", "aborted"} =>
          LET n == Min2(res'.doc_count, CompleteRecords(res'.records, res'.cut))
              records == SubSeq(res'.records, 1, n)
          IN IF \E i \in 1..n : records[i].bad # "none"
             THEN res'.returned /\ res'.code = -2 /\ eng' = eng
             ELSE /\ res'.returned
                  /\ res'.code = n
                  /\ eng' = ProfileIndexBatch(profile, eng, DocumentsOfBytes(records))]_vars

====
